---- MODULE Spec2Model ----
(***************************************************************************)
(* Zoom token distribution backend: the OAuth per-user token service       *)
(* (backend/functions/services/zoomTokenService.js, class ZoomTokenService)*)
(* and the client-credentials token service compiled into the same file.   *)
(* Every await of the code is a suspension point: a call is a small state  *)
(* machine (field pc) and the steps of concurrent calls interleave.        *)
(***************************************************************************)
EXTENDS Integers, Sequences, FiniteSets, TLC

\* ------------------------------------------------------------------ bounds
MaxCalls == 2        \* call slots: calls made besides the host call of a batch
MaxParts == 2        \* longest participant list of getMeetingTokens
MaxTok   == 1        \* token grants the authority answers successfully
MaxTicks == 1        \* clock advances
TickMs   == 120000   \* one clock advance, in ms
StartMs  == 600000   \* Date.now() at the start

\* --------------------------------------------------------- program constants
CACHE_BUFFER_MS == 5 * 60 * 1000

\* ------------------------------------------------------------ input domains
Principals == {"u1", "u2"}
MeetingIds == {"", "M1"}
ExpiresInValues == {60, 3600}
ZoomIdOf(p) == IF p = "u1" THEN "z1" ELSE "z2"
InitTokOf(p) == IF p = "u1" THEN 1001 ELSE 1002
InitExpiries == {StartMs + 120000, StartMs + 420000}

PartLists == UNION {[1..n -> Principals] : n \in 0..MaxParts}

Undef == 0
CallIds == 1..MaxCalls
HostCall == 0        \* the slot of the getZAKToken call made by getMeetingTokens
Slots == HostCall..(IF MaxParts > MaxCalls THEN MaxParts ELSE MaxCalls)

VARIABLES svcMode, store, now, nextTok, calls, batch, mem, cacheDoc, cfgCache,
          done, tokCap, route, users, authUsers, page, sockets, connectedUsers,
          emitted

\* the state of WebSocketHandler and of socket.io
wsVars == <<sockets, connectedUsers, emitted>>

vars == <<svcMode, store, now, nextTok, calls, batch, mem, cacheDoc, cfgCache,
          done, tokCap, route, users, authUsers, page, sockets, connectedUsers,
          emitted>>

\* ------------------------------------------------------------------ records
NoDoc == [exists |-> FALSE, accessToken |-> Undef, refreshToken |-> Undef,
          expiry |-> Undef, zoomUserId |-> "undefined"]

InitRecord(p, e) ==
  [exists |-> TRUE, accessToken |-> InitTokOf(p), refreshToken |-> 1000 + InitTokOf(p),
   expiry |-> e, zoomUserId |-> ZoomIdOf(p)]

NoToken == [kind |-> "none", user |-> "none", mid |-> "none", bearer |-> Undef]

IdleCall ==
  [pc |-> "idle", op |-> "none", uid |-> "none", mid |-> "none",
   snap |-> NoDoc, pend |-> NoDoc, bearer |-> Undef, zid |-> "none",
   token |-> NoToken, err |-> "none", parent |-> 0,
   nAuth |-> 0, nStore |-> 0, nRes |-> 0, tDecide |-> 0, tResp |-> 0, expIn |-> 0,
   respRt |-> Undef]

NoMem == [accessToken |-> Undef, expiry |-> Undef]

\* a token that carries no email claim
NoEmail == [local |-> "", domain |-> ""]

\* an HTTP request in the Express pipeline: its position, the meeting id of its
\* body, its method and path, its Authorization header, the claims of the ID
\* token it carries, req.user once authenticate has run, the handler that ran,
\* and the server's allowedDomains
IdleRoute ==
  [pc |-> "idle", mid |-> "none", path |-> "none", hdr |-> "none", tokUid |-> "none",
   email |-> NoEmail, user |-> "none", handler |-> "none", allowed |-> {},
   socket |-> "none"]

IdleBatch ==
  [pc |-> "idle", host |-> "none", mid |-> "none", parts |-> <<>>,
   hostId |-> "none", zak |-> NoToken, results |-> <<>>,
   participants |-> <<>>, failed |-> <<>>, timestamp |-> 0]

Terminal(c) == calls[c].pc \in {"done", "failed"}
IdleSlots == {c \in CallIds : calls[c].pc = "idle"}
\* slots are taken in increasing order
FirstIdle == CHOOSE c \in IdleSlots : \A d \in IdleSlots : c <= d

\* ------------------------------------------------ getAccessTokenForUser
\* the comparison of line 140 turned around
StoredTokenValid_Mut(data, t) ==
  data.accessToken # Undef /\ t > data.expiry - CACHE_BUFFER_MS

\* line 140
StoredTokenValid(data, t) ==
  data.accessToken # Undef /\ t < data.expiry - CACHE_BUFFER_MS

\* expires_in taken for milliseconds
ComputeExpiry_Mut(t, expires_in) == t + expires_in

\* the 5-minute buffer taken off before the expiry is stored
ComputeExpiry_Buffered(t, expires_in) == t + expires_in * 1000 - CACHE_BUFFER_MS

\* lines 89, 164, 592: expiry of a grant response received at time t
ComputeExpiry(t, expires_in) == t + expires_in * 1000

\* a write that leaves the stored expiry as it was
MergeSet_Mut(doc, payload) ==
  [doc EXCEPT !.exists = TRUE, !.accessToken = payload.accessToken,
              !.refreshToken = payload.refreshToken]

\* a write that carries the bearer secret and the expiry but no refresh secret
MergeSet_KeepRefresh(doc, payload) ==
  [doc EXCEPT !.exists = TRUE, !.accessToken = payload.accessToken,
              !.expiry = payload.expiry]

\* docRef.set(payload, {merge: true}) of lines 167-174
MergeSet(doc, payload) ==
  [doc EXCEPT !.exists = TRUE, !.accessToken = payload.accessToken,
              !.refreshToken = payload.refreshToken, !.expiry = payload.expiry]

\* a token cache in front of the resource API: a call whose arguments match
\* those of a finished call gets that call's token and sends nothing
AfterResolve_Cached(call, tok, zid) ==
  IF call.op = "resolve"
    THEN [call EXCEPT !.pc = "done", !.bearer = tok, !.zid = zid]
  ELSE IF \E d \in Slots : /\ calls[d].pc = "done" /\ calls[d].op = call.op
                            /\ calls[d].uid = call.uid /\ calls[d].mid = call.mid
    THEN LET d == CHOOSE d \in Slots : /\ calls[d].pc = "done" /\ calls[d].op = call.op
                                        /\ calls[d].uid = call.uid /\ calls[d].mid = call.mid
         IN [call EXCEPT !.pc = "done", !.bearer = tok, !.zid = zid,
                         !.token = calls[d].token]
  ELSE [call EXCEPT !.pc = "token", !.bearer = tok, !.zid = zid, !.nRes = @ + 1]

\* what the caller of getAccessTokenForUser does with {accessToken, zoomUserId}:
\* getZAKToken / getOBFToken send the resource-API request (lines 222, 251)
AfterResolve(call, tok, zid) ==
  IF call.op = "resolve"
    THEN [call EXCEPT !.pc = "done", !.bearer = tok, !.zid = zid]
    ELSE [call EXCEPT !.pc = "token", !.bearer = tok, !.zid = zid, !.nRes = @ + 1]

\* isTokenValid without the five-minute buffer: any unexpired entry is valid
IsTokenValid_NoBuffer(expiry, t) ==
  IF expiry = Undef THEN FALSE ELSE t < expiry

\* ---------------------------------- getAccessToken (client credentials)
\* isTokenValid, lines 559-563
IsTokenValid(expiry, t) ==
  IF expiry = Undef THEN FALSE ELSE t < expiry - CACHE_BUFFER_MS

\* lines 564-579: the synchronous head of getAccessToken
CcBegin(call0) ==
  LET call == [call0 EXCEPT !.snap = [NoDoc EXCEPT !.exists = mem.accessToken # Undef,
                                        !.accessToken = mem.accessToken,
                                        !.expiry = mem.expiry]]
  IN IF mem.accessToken # Undef /\ IsTokenValid(mem.expiry, now)
       THEN AfterResolve([call EXCEPT !.tDecide = now], mem.accessToken, call.uid)
     ELSE IF mem.accessToken = Undef /\ cfgCache
       THEN [call EXCEPT !.pc = "ccRead"]
     ELSE [call EXCEPT !.pc = "ccGrant", !.nAuth = @ + 1, !.tDecide = now]

\* getOBFToken without its meeting id check
BeginCall_Mut(op, p, m, parent) ==
  LET call == [IdleCall EXCEPT !.op = op, !.uid = p, !.mid = m, !.parent = parent]
  IN IF svcMode = "oauth" THEN [call EXCEPT !.pc = "get"] ELSE CcBegin(call)

\* the first synchronous segment of a call, up to its first await
\* (getOBFToken lines 240-244 and 622-627, getZAKToken lines 218-219 and 610-612)
BeginCall(op, p, m, parent) ==
  LET call == [IdleCall EXCEPT !.op = op, !.uid = p, !.mid = m, !.parent = parent]
  IN IF op = "obf" /\ m = ""
       THEN [call EXCEPT !.pc = "failed", !.err = "midRequired"]
     ELSE IF svcMode = "oauth"
       THEN [call EXCEPT !.pc = "get"]
     ELSE CcBegin(call)

StartCall(c, op, p, m) ==
  /\ batch.pc = "idle"
  /\ IdleSlots # {} /\ c = FirstIdle
  /\ (op = "obf") = (m \in MeetingIds)
  /\ calls' = [calls EXCEPT ![c] = BeginCall(op, p, m, 0)]
  /\ UNCHANGED <<svcMode, store, now, nextTok, batch, mem, cacheDoc, cfgCache, done, tokCap, route, users, authUsers, page, wsVars>>

\* lines 280-293: the promise of a participant's map() callback settles when
\* its getOBFToken call ends; done lists the participants in that order
RecordCompletion(c) ==
  done' = IF /\ batch.pc = "fanout" /\ c # HostCall
             /\ calls[c].pc \notin {"done", "failed"}
             /\ calls'[c].pc \in {"done", "failed"}
            THEN Append(done, c)
            ELSE done

\* line 131: the document read is served by the store
DocGet(c) ==
  /\ calls[c].pc = "get"
  /\ calls' = [calls EXCEPT ![c].pc = "got", ![c].snap = store[calls[c].uid],
                            ![c].nStore = @ + 1]
  /\ UNCHANGED <<svcMode, store, now, nextTok, batch, mem, cacheDoc, cfgCache, tokCap, route, users, authUsers, page, wsVars>>
  /\ RecordCompletion(c)

\* getAccessTokenForUser without the doc.exists check of lines 133-135
Decide_Mut(c) ==
  /\ calls[c].pc = "got"
  /\ LET call == calls[c]
         data == call.snap
     IN calls' = [calls EXCEPT ![c] =
          IF StoredTokenValid(data, now)
            THEN AfterResolve([call EXCEPT !.tDecide = now], data.accessToken, data.zoomUserId)
          ELSE [call EXCEPT !.pc = "refresh", !.nAuth = @ + 1, !.tDecide = now]]
  /\ UNCHANGED <<svcMode, store, now, nextTok, batch, mem, cacheDoc, cfgCache, tokCap, route, users, authUsers, page, wsVars>>
  /\ RecordCompletion(c)

\* lines 133-161: continuation after the read
Decide(c) ==
  /\ calls[c].pc = "got"
  /\ LET call == calls[c]
         data == call.snap
     IN calls' = [calls EXCEPT ![c] =
          IF ~data.exists
            THEN [call EXCEPT !.pc = "failed", !.err = "notConnected", !.tDecide = now]
          ELSE IF StoredTokenValid(data, now)
            THEN AfterResolve([call EXCEPT !.tDecide = now], data.accessToken, data.zoomUserId)
          ELSE [call EXCEPT !.pc = "refresh", !.nAuth = @ + 1, !.tDecide = now]]
  /\ UNCHANGED <<svcMode, store, now, nextTok, batch, mem, cacheDoc, cfgCache, tokCap, route, users, authUsers, page, wsVars>>
  /\ RecordCompletion(c)

\* a write of the response's refresh_token without the fallback of line 170
RefreshOK_NoFallback(c, expires_in, rotated) ==
  /\ calls[c].pc = "refresh"
  /\ nextTok < tokCap
  /\ LET call == calls[c]
         tok == nextTok + 1
         payload == [NoDoc EXCEPT !.accessToken = tok,
                       !.refreshToken = IF rotated THEN 3000 + tok ELSE Undef,
                       !.expiry = ComputeExpiry(now, expires_in)]
     IN calls' = [calls EXCEPT ![c] =
          [call EXCEPT !.pc = "write", !.pend = payload, !.expIn = expires_in,
                       !.tResp = now, !.nStore = @ + 1,
                       !.respRt = IF rotated THEN 3000 + tok ELSE Undef]]
  /\ nextTok' = nextTok + 1
  /\ UNCHANGED <<svcMode, store, now, batch, mem, cacheDoc, cfgCache, tokCap, route, users, authUsers, page, wsVars>>
  /\ RecordCompletion(c)

\* lines 163-174: the authority answers the refresh grant; the write is issued
RefreshOK(c, expires_in, rotated) ==
  /\ calls[c].pc = "refresh"
  /\ nextTok < tokCap
  /\ LET call == calls[c]
         tok == nextTok + 1
         payload == [NoDoc EXCEPT !.accessToken = tok,
                       !.refreshToken = IF rotated THEN 3000 + tok
                                        ELSE call.snap.refreshToken,
                       !.expiry = ComputeExpiry(now, expires_in)]
     IN calls' = [calls EXCEPT ![c] =
          [call EXCEPT !.pc = "write", !.pend = payload, !.expIn = expires_in,
                       !.tResp = now, !.nStore = @ + 1,
                       !.respRt = IF rotated THEN 3000 + tok ELSE Undef]]
  /\ nextTok' = nextTok + 1
  /\ UNCHANGED <<svcMode, store, now, batch, mem, cacheDoc, cfgCache, tokCap, route, users, authUsers, page, wsVars>>
  /\ RecordCompletion(c)

\* a failure handler that drops the stored bearer secret
RefreshFail_Mut(c) ==
  /\ calls[c].pc = "refresh"
  /\ calls' = [calls EXCEPT ![c].pc = "failed", ![c].err = "refreshFailed"]
  /\ store' = [store EXCEPT ![calls[c].uid].accessToken = Undef]
  /\ UNCHANGED <<svcMode, now, nextTok, batch, mem, cacheDoc, cfgCache, tokCap, route, users, authUsers, page, wsVars>>
  /\ RecordCompletion(c)

\* a failure handler that sends the refresh grant once more
RefreshFail_Retry(c) ==
  /\ calls[c].pc = "refresh"
  /\ calls' = [calls EXCEPT ![c] =
       IF calls[c].nAuth < 2
         THEN [calls[c] EXCEPT !.nAuth = @ + 1]
         ELSE [calls[c] EXCEPT !.pc = "failed", !.err = "refreshFailed"]]
  /\ UNCHANGED <<svcMode, store, now, nextTok, batch, mem, cacheDoc, cfgCache, tokCap, route, users, authUsers, page, wsVars>>
  /\ RecordCompletion(c)

\* lines 177-186: the refresh grant fails (rejected, network error, timeout)
RefreshFail(c) ==
  /\ calls[c].pc = "refresh"
  /\ calls' = [calls EXCEPT ![c].pc = "failed", ![c].err = "refreshFailed"]
  /\ UNCHANGED <<svcMode, store, now, nextTok, batch, mem, cacheDoc, cfgCache, tokCap, route, users, authUsers, page, wsVars>>
  /\ RecordCompletion(c)

\* lines 167-176: the merge write is applied, the call returns
WriteOK(c) ==
  /\ calls[c].pc = "write"
  /\ LET call == calls[c]
     IN /\ store' = [store EXCEPT ![call.uid] = MergeSet(@, call.pend)]
        /\ calls' = [calls EXCEPT ![c] =
             AfterResolve(call, call.pend.accessToken, call.snap.zoomUserId)]
  /\ UNCHANGED <<svcMode, now, nextTok, batch, mem, cacheDoc, cfgCache, tokCap, route, users, authUsers, page, wsVars>>
  /\ RecordCompletion(c)

\* lines 167, 177-186: the write is rejected inside the try block
WriteFail(c) ==
  /\ calls[c].pc = "write"
  /\ calls' = [calls EXCEPT ![c].pc = "failed", ![c].err = "refreshFailed"]
  /\ UNCHANGED <<svcMode, store, now, nextTok, batch, mem, cacheDoc, cfgCache, tokCap, route, users, authUsers, page, wsVars>>
  /\ RecordCompletion(c)

\* readFirestoreCache, lines 541-553: the cache document read is served
ReadFirestoreCache(doc) ==
  IF doc.accessToken = Undef \/ doc.expiry = Undef THEN NoMem ELSE doc

CcDocGet(c) ==
  /\ calls[c].pc = "ccRead"
  /\ calls' = [calls EXCEPT ![c].pc = "ccGot", ![c].nStore = @ + 1,
                            ![c].snap = [NoDoc EXCEPT
                               !.exists = ReadFirestoreCache(cacheDoc) # NoMem,
                               !.accessToken = ReadFirestoreCache(cacheDoc).accessToken,
                               !.expiry = ReadFirestoreCache(cacheDoc).expiry]]
  /\ UNCHANGED <<svcMode, store, now, nextTok, batch, mem, cacheDoc, cfgCache, tokCap, route, users, authUsers, page, wsVars>>
  /\ RecordCompletion(c)

\* lines 570-590: continuation after the cache read
CcDecide(c) ==
  /\ calls[c].pc = "ccGot"
  /\ LET call == calls[c]
         cached == call.snap
     IN IF cached.exists /\ IsTokenValid(cached.expiry, now)
          THEN /\ mem' = [accessToken |-> cached.accessToken, expiry |-> cached.expiry]
               /\ calls' = [calls EXCEPT ![c] =
                    AfterResolve([call EXCEPT !.tDecide = now], cached.accessToken, call.uid)]
          ELSE /\ mem' = mem
               /\ calls' = [calls EXCEPT ![c] =
                    [call EXCEPT !.pc = "ccGrant", !.nAuth = @ + 1, !.tDecide = now]]
  /\ UNCHANGED <<svcMode, store, now, nextTok, batch, cacheDoc, cfgCache, tokCap, route, users, authUsers, page, wsVars>>
  /\ RecordCompletion(c)

\* lines 591-600: the authority answers the account_credentials grant
CcGrantOK(c, expires_in) ==
  /\ calls[c].pc = "ccGrant"
  /\ nextTok < tokCap
  /\ LET call == calls[c]
         tok == nextTok + 1
         payload == [NoDoc EXCEPT !.accessToken = tok,
                                  !.expiry = ComputeExpiry(now, expires_in)]
     IN /\ mem' = [accessToken |-> tok, expiry |-> payload.expiry]
        /\ calls' = [calls EXCEPT ![c] =
             IF cfgCache
               THEN [call EXCEPT !.pc = "ccWrite", !.pend = payload, !.tResp = now,
                                 !.expIn = expires_in, !.nStore = @ + 1]
               ELSE AfterResolve([call EXCEPT !.pend = payload, !.tResp = now,
                                              !.expIn = expires_in],
                                 tok, call.uid)]
  /\ nextTok' = nextTok + 1
  /\ UNCHANGED <<svcMode, store, now, batch, cacheDoc, cfgCache, tokCap, route, users, authUsers, page, wsVars>>
  /\ RecordCompletion(c)

\* lines 602-608: the grant fails
CcGrantFail(c) ==
  /\ calls[c].pc = "ccGrant"
  /\ calls' = [calls EXCEPT ![c].pc = "failed", ![c].err = "oauthFailed"]
  /\ UNCHANGED <<svcMode, store, now, nextTok, batch, mem, cacheDoc, cfgCache, tokCap, route, users, authUsers, page, wsVars>>
  /\ RecordCompletion(c)

\* writeFirestoreCache, lines 554-558 and 595-600: the merge write is applied
CcWriteOK(c) ==
  /\ calls[c].pc = "ccWrite"
  /\ LET call == calls[c]
     IN /\ cacheDoc' = [accessToken |-> call.pend.accessToken,
                        expiry |-> call.pend.expiry]
        /\ calls' = [calls EXCEPT ![c] =
             AfterResolve(call, call.pend.accessToken, call.uid)]
  /\ UNCHANGED <<svcMode, store, now, nextTok, batch, mem, cfgCache, tokCap, route, users, authUsers, page, wsVars>>
  /\ RecordCompletion(c)

\* lines 595, 602-608: the write is rejected inside the try block
CcWriteFail(c) ==
  /\ calls[c].pc = "ccWrite"
  /\ calls' = [calls EXCEPT ![c].pc = "failed", ![c].err = "oauthFailed"]
  /\ UNCHANGED <<svcMode, store, now, nextTok, batch, mem, cacheDoc, cfgCache, tokCap, route, users, authUsers, page, wsVars>>
  /\ RecordCompletion(c)

\* lines 222-232 / 251-261: the resource API answers the token request
TokenOK(c) ==
  /\ calls[c].pc = "token"
  /\ LET call == calls[c]
     IN calls' = [calls EXCEPT ![c].pc = "done", ![c].token =
          [kind |-> IF call.op = "zak" THEN "zak" ELSE "onbehalf",
           user |-> call.zid,
           mid |-> IF call.op = "zak" THEN "none" ELSE call.mid,
           bearer |-> call.bearer]]
  /\ UNCHANGED <<svcMode, store, now, nextTok, batch, mem, cacheDoc, cfgCache, tokCap, route, users, authUsers, page, wsVars>>
  /\ RecordCompletion(c)

TokenFail(c) ==
  /\ calls[c].pc = "token"
  /\ calls' = [calls EXCEPT ![c].pc = "failed", ![c].err = "tokenFailed"]
  /\ UNCHANGED <<svcMode, store, now, nextTok, batch, mem, cacheDoc, cfgCache, tokCap, route, users, authUsers, page, wsVars>>
  /\ RecordCompletion(c)

\* ------------------------------------------------------ getMeetingTokens
\* lines 269-278: the call starts and awaits getZAKToken(host)
BeginBatch(h, m, parts) ==
  /\ batch.pc = "idle"
  /\ \A c \in Slots : calls[c].pc = "idle"
  /\ calls' = [calls EXCEPT ![HostCall] = BeginCall("zak", h, "none", 0)]
  /\ batch' = [IdleBatch EXCEPT !.pc = "host", !.host = h, !.mid = m,
                                !.parts = parts, !.timestamp = now]
  /\ UNCHANGED <<svcMode, store, now, nextTok, mem, cacheDoc, cfgCache, done, tokCap, users, authUsers, page, wsVars>>

\* getMeetingTokens called by itself
StartBatch(h, m, parts) ==
  /\ BeginBatch(h, m, parts)
  /\ UNCHANGED route

\* lines 280-293: the map() callbacks that settle without awaiting anything
\* outside themselves, in the order map() started them
SettledAtStart ==
  SelectSeq([i \in 1..Len(batch.parts) |-> i],
            LAMBDA i : calls'[i].pc \in {"done", "failed"})

\* lines 277-283: getZAKToken returned; map() starts every getOBFToken call
BatchFanOut ==
  /\ batch.pc = "host"
  /\ calls[HostCall].pc = "done"
  /\ calls' = [c \in Slots |->
       IF c \in 1..Len(batch.parts)
         THEN BeginCall("obf", batch.parts[c], batch.mid, c)
         ELSE calls[c]]
  /\ batch' = [batch EXCEPT !.pc = "fanout", !.hostId = calls[HostCall].zid,
                            !.zak = calls[HostCall].token]
  /\ done' = SettledAtStart
  /\ UNCHANGED <<svcMode, store, now, nextTok, mem, cacheDoc, cfgCache, tokCap, route, users, authUsers, page, wsVars>>

\* a host failure that is swallowed: the fan-out runs without a host token
BatchHostFail_Mut ==
  /\ batch.pc = "host"
  /\ calls[HostCall].pc = "failed"
  /\ calls' = [c \in Slots |->
       IF c \in 1..Len(batch.parts)
         THEN BeginCall("obf", batch.parts[c], batch.mid, c)
         ELSE calls[c]]
  /\ batch' = [batch EXCEPT !.pc = "fanout"]
  /\ done' = SettledAtStart
  /\ UNCHANGED <<svcMode, store, now, nextTok, mem, cacheDoc, cfgCache, tokCap, route, users, authUsers, page, wsVars>>

\* lines 277-278: getZAKToken rejected; the rejection leaves getMeetingTokens
BatchHostFail ==
  /\ batch.pc = "host"
  /\ calls[HostCall].pc = "failed"
  /\ batch' = [batch EXCEPT !.pc = "failed"]
  /\ UNCHANGED <<svcMode, store, now, nextTok, calls, mem, cacheDoc, cfgCache, done, tokCap, route, users, authUsers, page, wsVars>>

\* a catch block whose entry carries no error key
ParticipantEntry_Mut(call) ==
  IF call.pc = "done"
    THEN [userId |-> call.zid, obfToken |-> call.token]
    ELSE [userId |-> call.uid]

\* lines 281-293: the value one map() callback resolves with
ParticipantEntry(call) ==
  IF call.pc = "done"
    THEN [userId |-> call.zid, obfToken |-> call.token]
    ELSE [userId |-> call.uid, error |-> call.err]

HasObfToken(r) == "obfToken" \in DOMAIN r
HasError(r) == "error" \in DOMAIN r

\* map() callbacks without the try/catch: one rejection rejects Promise.all
BatchCollect_Mut ==
  /\ batch.pc = "fanout"
  /\ \A i \in 1..Len(batch.parts) : Terminal(i)
  /\ LET participantResults ==
           [i \in 1..Len(batch.parts) |-> ParticipantEntry(calls[i])]
     IN batch' =
          IF \E i \in 1..Len(batch.parts) : calls[i].pc = "failed"
            THEN [batch EXCEPT !.pc = "failed"]
            ELSE [batch EXCEPT !.pc = "returned",
                    !.results = participantResults,
                    !.participants = SelectSeq(participantResults, HasObfToken),
                    !.failed = SelectSeq(participantResults, HasError)]
  /\ UNCHANGED <<svcMode, store, now, nextTok, calls, mem, cacheDoc, cfgCache, done, tokCap, route, users, authUsers, page, wsVars>>

\* results collected as the requests complete instead of by Promise.all
BatchCollect_ByCompletion ==
  /\ batch.pc = "fanout"
  /\ \A i \in 1..Len(batch.parts) : Terminal(i)
  /\ LET participantResults ==
           [k \in 1..Len(batch.parts) |-> ParticipantEntry(calls[done[k]])]
     IN batch' = [batch EXCEPT !.pc = "returned",
                    !.results = participantResults,
                    !.participants = SelectSeq(participantResults, HasObfToken),
                    !.failed = SelectSeq(participantResults, HasError)]
  /\ UNCHANGED <<svcMode, store, now, nextTok, calls, mem, cacheDoc, cfgCache, done, tokCap, route, users, authUsers, page, wsVars>>

\* lines 280-306: Promise.all resolved; the result is assembled
BatchCollect ==
  /\ batch.pc = "fanout"
  /\ \A i \in 1..Len(batch.parts) : Terminal(i)
  /\ LET participantResults ==
           [i \in 1..Len(batch.parts) |-> ParticipantEntry(calls[i])]
     IN batch' = [batch EXCEPT !.pc = "returned",
                    !.results = participantResults,
                    !.participants = SelectSeq(participantResults, HasObfToken),
                    !.failed = SelectSeq(participantResults, HasError)]
  /\ UNCHANGED <<svcMode, store, now, nextTok, calls, mem, cacheDoc, cfgCache, done, tokCap, route, users, authUsers, page, wsVars>>

\* Date.now() advances
Tick ==
  /\ now < StartMs + MaxTicks * TickMs
  /\ now' = now + TickMs
  /\ UNCHANGED <<svcMode, store, nextTok, calls, batch, mem, cacheDoc, cfgCache, done, tokCap, route, users, authUsers, page, wsVars>>

\* ---------------------------------------------------------------- system
InitStores ==
  [Principals -> {NoDoc} \cup
     UNION {{InitRecord(p, e) : e \in InitExpiries} : p \in Principals}]

InitCacheDocs ==
  {NoMem} \cup {[accessToken |-> 1001, expiry |-> e] : e \in InitExpiries}

\* ------------------------------------------------------------ the admin page
\* browser sessions in which an administrator has AdminPage open
Sessions == {"s1", "s2"}

\* values typed into the Display Name and Email inputs
DisplayNames == {"", "bob ", "amy"}
FormEmails == {"", "x@e.com", "y@e.com"}

\* String.trim() of a typed display name
Trim(n) == IF n = "bob " THEN "bob" ELSE n

\* validateEmail: the typed email matches the pattern
ValidateEmail(e) == e # ""

\* AdminPage as mounted: the form is empty, the name is unchecked, no timer
\* runs, no uniqueness query is in flight, and auth.currentUser is the
\* administrator who opened the page (fullName and password are held at valid
\* values). queries holds the display names of the timer's queries in flight.
IdlePage ==
  [pc |-> "idle", currentUser |-> "admin", displayName |-> "", email |-> "",
   displayNameValid |-> "null", displayNameChecking |-> FALSE, debounce |-> "none",
   queries |-> {}, isSubmitting |-> FALSE]

\* no user has been created yet
InitAdminPage ==
  /\ users = <<>>
  /\ authUsers = {}
  /\ page = [s \in Sessions |-> IdlePage]

\* ------------------------------------------------------- WebSocketHandler
\* socket.io connections; an id is never used again after its disconnect
SocketIds == {"k1", "k2"}

\* userId values of authenticate, hostUserId and participantUserId values of
\* the meeting events: a principal's uid or nothing
EventUserIds == Principals \cup {""}

\* a socket before its connection event: in no room
NewSocket == [state |-> "new", rooms |-> {}]

\* constructor, lines 9-21: no connection yet, connectedUsers is an empty Map
\* (its entries in insertion order), nothing has been emitted
InitSockets ==
  /\ sockets = [k \in SocketIds |-> NewSocket]
  /\ connectedUsers = <<>>
  /\ emitted = {}

\* the state after construction, when the authority answers at most cap grants
InitCore(cap) ==
  /\ svcMode \in {"oauth", "cc"}
  /\ store \in InitStores
  /\ \A p \in Principals : store[p].exists => store[p].zoomUserId = ZoomIdOf(p)
  /\ svcMode = "cc" => \A p \in Principals : ~store[p].exists
  /\ cfgCache \in BOOLEAN
  /\ cacheDoc \in InitCacheDocs
  /\ svcMode = "oauth" => ~cfgCache
  /\ ~cfgCache => cacheDoc = NoMem
  /\ now = StartMs
  /\ nextTok = 0
  /\ calls = [c \in Slots |-> IdleCall]
  /\ batch = IdleBatch
  /\ mem = NoMem
  /\ done = <<>>
  /\ tokCap = cap
  /\ InitSockets

InitWith(cap) ==
  /\ InitCore(cap)
  /\ route = IdleRoute
  /\ InitAdminPage

Init == InitWith(MaxTok)

\* one step of a call in progress
CallStep(c) ==
  \/ DocGet(c)
  \/ Decide(c)
  \/ \E e \in ExpiresInValues, r \in BOOLEAN : RefreshOK(c, e, r)
  \/ RefreshFail(c)
  \/ WriteOK(c)
  \/ WriteFail(c)
  \/ TokenOK(c)
  \/ TokenFail(c)
  \/ CcDocGet(c)
  \/ CcDecide(c)
  \/ \E e \in ExpiresInValues : CcGrantOK(c, e)
  \/ CcGrantFail(c)
  \/ CcWriteOK(c)
  \/ CcWriteFail(c)

\* concurrent calls of getAccessTokenForUser / getZAKToken / getOBFToken
Next ==
  \/ \E c \in CallIds, op \in {"resolve", "obf"}, p \in Principals,
          m \in MeetingIds \cup {"none"} : StartCall(c, op, p, m)
  \/ \E c \in CallIds : CallStep(c)
  \/ Tick

Spec == Init /\ [][Next]_vars

\* one getMeetingTokens call
NextBatch ==
  \/ \E h \in Principals, m \in MeetingIds, parts \in PartLists : StartBatch(h, m, parts)
  \/ BatchFanOut
  \/ BatchHostFail
  \/ BatchCollect
  \/ \E c \in Slots : CallStep(c)
  \/ Tick

SpecBatch == Init /\ [][NextBatch]_vars

\* writeFirestoreCache, lines 554-558, run by another instance of the service:
\* it obtained a token of its own and stored it in the shared cache document
OtherInstanceWrite(expires_in) ==
  /\ svcMode = "cc" /\ cfgCache
  /\ cacheDoc.accessToken # 2001
  /\ cacheDoc' = [accessToken |-> 2001, expiry |-> ComputeExpiry(now, expires_in)]
  /\ UNCHANGED <<svcMode, store, now, nextTok, calls, batch, mem, cfgCache, done, tokCap, route, users, authUsers, page, wsVars>>

\* calls of one instance while another instance shares the cache document
NextShared ==
  \/ \E c \in CallIds, op \in {"resolve", "obf"}, p \in Principals,
          m \in MeetingIds \cup {"none"} : StartCall(c, op, p, m)
  \/ \E c \in CallIds : CallStep(c)
  \/ \E e \in ExpiresInValues : OtherInstanceWrite(e)
  \/ Tick

SpecShared == Init /\ [][NextShared]_vars

\* -------------------------------------- exchangeCodeForTokens, disconnectZoom
\* lines 63-86: the authorization_code grant is sent
BeginExchange(c, p) ==
  /\ svcMode = "oauth"
  /\ batch.pc = "idle"
  /\ IdleSlots # {} /\ c = FirstIdle
  /\ calls' = [calls EXCEPT ![c] =
       [IdleCall EXCEPT !.op = "exchange", !.uid = p, !.pc = "xCode", !.nAuth = 1]]
  /\ UNCHANGED <<svcMode, store, now, nextTok, batch, mem, cacheDoc, cfgCache, done, tokCap, users, authUsers, page, wsVars>>

\* exchangeCodeForTokens called outside a modelled request
StartExchange(c, p) ==
  /\ BeginExchange(c, p)
  /\ UNCHANGED route

\* lines 88-95: the authority answers the grant; the profile request is sent
ExchangeCodeOK(c, expires_in) ==
  /\ calls[c].pc = "xCode"
  /\ nextTok < tokCap
  /\ LET tok == nextTok + 1
         payload == [NoDoc EXCEPT !.accessToken = tok, !.refreshToken = 3000 + tok,
                                  !.expiry = ComputeExpiry(now, expires_in)]
     IN calls' = [calls EXCEPT ![c] =
          [calls[c] EXCEPT !.pc = "xProfile", !.pend = payload, !.expIn = expires_in,
                           !.tResp = now, !.respRt = 3000 + tok, !.nRes = @ + 1]]
  /\ nextTok' = nextTok + 1
  /\ UNCHANGED <<svcMode, store, now, batch, mem, cacheDoc, cfgCache, done, tokCap, route, users, authUsers, page, wsVars>>

\* lines 95-104: /users/me answers; the write of the four fields is issued
ExchangeProfileOK(c) ==
  /\ calls[c].pc = "xProfile"
  /\ calls' = [calls EXCEPT ![c].pc = "xWrite",
                            ![c].pend.zoomUserId = ZoomIdOf(calls[c].uid),
                            ![c].nStore = @ + 1]
  /\ UNCHANGED <<svcMode, store, now, nextTok, batch, mem, cacheDoc, cfgCache, done, tokCap, route, users, authUsers, page, wsVars>>

\* a write that replaces the whole collection by the new record
ExchangeWriteOK_AllDocs(c) ==
  /\ calls[c].pc = "xWrite"
  /\ LET call == calls[c]
     IN /\ store' = [p \in Principals |->
             [MergeSet(store[p], call.pend) EXCEPT !.zoomUserId = call.pend.zoomUserId]]
        /\ calls' = [calls EXCEPT ![c].pc = "done", ![c].zid = call.pend.zoomUserId]
  /\ UNCHANGED <<svcMode, now, nextTok, batch, mem, cacheDoc, cfgCache, done, tokCap, route, users, authUsers, page, wsVars>>

\* lines 98-111: the merge write is applied; {zoomUserId} is returned
ExchangeWriteOK(c) ==
  /\ calls[c].pc = "xWrite"
  /\ LET call == calls[c]
     IN /\ store' = [store EXCEPT ![call.uid] =
             [MergeSet(@, call.pend) EXCEPT !.zoomUserId = call.pend.zoomUserId]]
        /\ calls' = [calls EXCEPT ![c].pc = "done", ![c].zid = call.pend.zoomUserId]
  /\ UNCHANGED <<svcMode, now, nextTok, batch, mem, cacheDoc, cfgCache, done, tokCap, route, users, authUsers, page, wsVars>>

\* a failure handler that rolls the principal's record back to absent
ExchangeFail_Rollback(c) ==
  /\ calls[c].pc \in {"xCode", "xProfile", "xWrite"}
  /\ calls' = [calls EXCEPT ![c].pc = "failed", ![c].err = "exchangeFailed"]
  /\ store' = [store EXCEPT ![calls[c].uid] = NoDoc]
  /\ UNCHANGED <<svcMode, now, nextTok, batch, mem, cacheDoc, cfgCache, done, tokCap, route, users, authUsers, page, wsVars>>

\* lines 112-116: the grant, the profile request or the write is rejected
ExchangeFail(c) ==
  /\ calls[c].pc \in {"xCode", "xProfile", "xWrite"}
  /\ calls' = [calls EXCEPT ![c].pc = "failed", ![c].err = "exchangeFailed"]
  /\ UNCHANGED <<svcMode, store, now, nextTok, batch, mem, cacheDoc, cfgCache, done, tokCap, route, users, authUsers, page, wsVars>>

\* line 206: disconnectZoom sends the delete of the principal's document
StartDisconnect(c, p) ==
  /\ svcMode = "oauth"
  /\ batch.pc = "idle"
  /\ IdleSlots # {} /\ c = FirstIdle
  /\ calls' = [calls EXCEPT ![c] =
       [IdleCall EXCEPT !.op = "disconnect", !.uid = p, !.pc = "del", !.nStore = 1]]
  /\ UNCHANGED <<svcMode, store, now, nextTok, batch, mem, cacheDoc, cfgCache, done, tokCap, route, users, authUsers, page, wsVars>>

\* lines 206-207: the delete is applied
DeleteOK(c) ==
  /\ calls[c].pc = "del"
  /\ store' = [store EXCEPT ![calls[c].uid] = NoDoc]
  /\ calls' = [calls EXCEPT ![c].pc = "done"]
  /\ UNCHANGED <<svcMode, now, nextTok, batch, mem, cacheDoc, cfgCache, done, tokCap, route, users, authUsers, page, wsVars>>

\* line 206: the delete is rejected; the rejection leaves disconnectZoom
DeleteFail(c) ==
  /\ calls[c].pc = "del"
  /\ calls' = [calls EXCEPT ![c].pc = "failed", ![c].err = "deleteFailed"]
  /\ UNCHANGED <<svcMode, store, now, nextTok, batch, mem, cacheDoc, cfgCache, done, tokCap, route, users, authUsers, page, wsVars>>

\* line 195: isZoomConnected sends the read of the principal's document
StartStatus(c, p) ==
  /\ svcMode = "oauth"
  /\ batch.pc = "idle"
  /\ IdleSlots # {} /\ c = FirstIdle
  /\ calls' = [calls EXCEPT ![c] =
       [IdleCall EXCEPT !.op = "status", !.uid = p, !.pc = "statGet", !.nStore = 1]]
  /\ UNCHANGED <<svcMode, store, now, nextTok, batch, mem, cacheDoc, cfgCache, done, tokCap, route, users, authUsers, page, wsVars>>

\* lines 195-198: the read is served; {connected, zoomUserId} is returned
\* (connected is snap.exists, zid the zoomUserId reported)
StatusGet(c) ==
  /\ calls[c].pc = "statGet"
  /\ calls' = [calls EXCEPT ![c].pc = "done", ![c].snap = store[calls[c].uid],
                            ![c].zid = IF store[calls[c].uid].exists
                                         THEN store[calls[c].uid].zoomUserId
                                         ELSE "none"]
  /\ UNCHANGED <<svcMode, store, now, nextTok, batch, mem, cacheDoc, cfgCache, done, tokCap, route, users, authUsers, page, wsVars>>

\* line 195: the read is rejected; the rejection leaves isZoomConnected
StatusFail(c) ==
  /\ calls[c].pc = "statGet"
  /\ calls' = [calls EXCEPT ![c].pc = "failed", ![c].err = "statusFailed"]
  /\ UNCHANGED <<svcMode, store, now, nextTok, batch, mem, cacheDoc, cfgCache, done, tokCap, route, users, authUsers, page, wsVars>>

\* one step of an exchangeCodeForTokens, disconnectZoom or isZoomConnected call
\* in progress
AccountStep(c) ==
  \/ \E e \in ExpiresInValues : ExchangeCodeOK(c, e)
  \/ ExchangeProfileOK(c)
  \/ ExchangeWriteOK(c)
  \/ ExchangeFail(c)
  \/ DeleteOK(c)
  \/ DeleteFail(c)
  \/ StatusGet(c)
  \/ StatusFail(c)

\* accounts are connected and disconnected while tokens are resolved
NextAccount ==
  \/ \E c \in CallIds, op \in {"resolve", "obf"}, p \in Principals,
          m \in MeetingIds \cup {"none"} : StartCall(c, op, p, m)
  \/ \E c \in CallIds, p \in Principals : StartExchange(c, p)
  \/ \E c \in CallIds, p \in Principals : StartDisconnect(c, p)
  \/ \E c \in CallIds, p \in Principals : StartStatus(c, p)
  \/ \E c \in CallIds : CallStep(c)
  \/ \E c \in CallIds : AccountStep(c)

SpecAccount == Init /\ [][NextAccount]_vars

\* concurrent calls while the authority answers one grant more: two refreshes
\* of one record can both succeed
InitRace == InitWith(MaxTok + 1)

NextRace ==
  \/ \E c \in CallIds, op \in {"resolve", "obf"}, p \in Principals,
          m \in MeetingIds \cup {"none"} : StartCall(c, op, p, m)
  \/ \E c \in CallIds : CallStep(c)

SpecRace == InitRace /\ [][NextRace]_vars

\* ------------------------------------- connectedUsers, rooms and emissions
\* Map.set: the value of an existing key is replaced in place, a new key is
\* added at the end
MapSet(m, userId, socketId) ==
  IF \E i \in DOMAIN m : m[i].userId = userId
    THEN [i \in DOMAIN m |->
            IF m[i].userId = userId THEN [m[i] EXCEPT !.socketId = socketId] ELSE m[i]]
    ELSE Append(m, [userId |-> userId, socketId |-> socketId])

\* Map.has
MapHas(m, userId) == \E i \in DOMAIN m : m[i].userId = userId

\* lines 174-180: the first entry, in insertion order, whose value is the
\* socket id is deleted; the loop breaks there
DeleteFirstOf(m, socketId) ==
  IF \E i \in DOMAIN m : m[i].socketId = socketId
    THEN LET i == CHOOSE i \in DOMAIN m :
                    /\ m[i].socketId = socketId
                    /\ \A j \in DOMAIN m : m[j].socketId = socketId => i <= j
         IN SubSeq(m, 1, i - 1) \o SubSeq(m, i + 1, Len(m))
    ELSE m

\* lines 203-205
isUserConnected(userId) == MapHas(connectedUsers, userId)

\* the connected sockets that are in room user:<id>
RoomMembers(id) ==
  {k \in SocketIds : sockets[k].state = "connected" /\ id \in sockets[k].rooms}

\* socket.emit(event, {.., token}): delivered if the socket is still connected
ToSocket(k, event, tok) ==
  [event |-> event, kind |-> "socket", target |-> k, token |-> tok,
   to |-> IF sockets[k].state = "connected" THEN {k} ELSE {}]

\* io.to("user:<id>").emit(event, {.., token}): delivered to the room's members
ToRoom(id, event, tok) ==
  [event |-> event, kind |-> "room", target |-> id, token |-> tok,
   to |-> RoomMembers(id)]

\* the meeting:credentials emissions of a getMeetingTokens result: one per
\* entry of participants, to the room named by the entry's userId
CredentialsToRooms ==
  {ToRoom(batch.participants[i].userId, "meeting:credentials",
          batch.participants[i].obfToken) : i \in DOMAIN batch.participants}

\* ------------------------------------------------- POST /api/meetings/setup
\* server.js lines 384-405: the body is validated; getMeetingTokens is called
SetupRequest(h, m, parts) ==
  /\ route.pc = "idle"
  /\ IF m = ""
       THEN /\ route' = [route EXCEPT !.pc = "status400", !.mid = m]
            /\ UNCHANGED <<svcMode, store, now, nextTok, calls, batch, mem, cacheDoc,
                           cfgCache, done, tokCap, users, authUsers, page, wsVars>>
       ELSE /\ BeginBatch(h, m, parts)
            /\ route' = [route EXCEPT !.pc = "tokens", !.mid = m]

\* lines 401-405, 433-442: getMeetingTokens rejected; the catch answers 500
SetupTokensFailed ==
  /\ route.pc = "tokens" /\ batch.pc = "failed"
  /\ route' = [route EXCEPT !.pc = "status500"]
  /\ UNCHANGED <<svcMode, store, now, nextTok, calls, batch, mem, cacheDoc, cfgCache,
                 done, tokCap, users, authUsers, page, wsVars>>

\* lines 406-412: getMeetingTokens returned; storeMeetingMetadata is awaited
SetupStoreMetadata ==
  /\ route.pc = "tokens" /\ batch.pc = "returned"
  /\ route' = [route EXCEPT !.pc = "metadata"]
  /\ UNCHANGED <<svcMode, store, now, nextTok, calls, batch, mem, cacheDoc, cfgCache,
                 done, tokCap, users, authUsers, page, wsVars>>

\* lines 406-432: the metadata write is applied; the ZAK is emitted to the
\* room user:<hostFirebaseUid>, each participant's token to the room
\* user:<participant.userId>, and the result is sent
SetupMetadataOK ==
  /\ route.pc = "metadata"
  /\ emitted' = emitted \cup {ToRoom(batch.host, "meeting:started", batch.zak)}
                        \cup CredentialsToRooms
  /\ route' = [route EXCEPT !.pc = "status200"]
  /\ UNCHANGED <<svcMode, store, now, nextTok, calls, batch, mem, cacheDoc, cfgCache,
                 done, tokCap, users, authUsers, page, sockets, connectedUsers>>

\* lines 406, 433-442: the metadata write is rejected inside the try block
SetupMetadataFail ==
  /\ route.pc = "metadata"
  /\ route' = [route EXCEPT !.pc = "status500"]
  /\ UNCHANGED <<svcMode, store, now, nextTok, calls, batch, mem, cacheDoc, cfgCache,
                 done, tokCap, users, authUsers, page, wsVars>>

\* one POST /api/meetings/setup request
NextSetup ==
  \/ \E h \in Principals, m \in MeetingIds, parts \in PartLists : SetupRequest(h, m, parts)
  \/ BatchFanOut
  \/ BatchHostFail
  \/ BatchCollect
  \/ \E c \in Slots : CallStep(c)
  \/ SetupTokensFailed
  \/ SetupStoreMetadata
  \/ SetupMetadataOK
  \/ SetupMetadataFail
  \/ Tick

SpecSetup == Init /\ [][NextSetup]_vars

\* ------------------------------------------------------------- clearCache
\* lines 672-680: memory is emptied and the delete of the cache document is
\* started without being awaited; clearCache returns at once. The call sits
\* in slot HostCall: snap keeps what memory held and pend what the cache
\* document held, parent the number of calls started before the clear.
ClearCache ==
  /\ svcMode = "cc"
  /\ batch.pc = "idle"
  /\ calls[HostCall].pc = "idle"
  /\ mem' = NoMem
  /\ calls' = [calls EXCEPT ![HostCall] =
       [IdleCall EXCEPT !.op = "clear",
                        !.pc = IF cfgCache THEN "ccDel" ELSE "done",
                        !.nStore = IF cfgCache THEN 1 ELSE 0,
                        !.parent = Cardinality({c \in CallIds : calls[c].pc # "idle"}),
                        !.snap = [NoDoc EXCEPT !.exists = mem.accessToken # Undef,
                                               !.accessToken = mem.accessToken,
                                               !.expiry = mem.expiry],
                        !.pend = [NoDoc EXCEPT !.accessToken = cacheDoc.accessToken,
                                               !.expiry = cacheDoc.expiry]]]
  /\ UNCHANGED <<svcMode, store, now, nextTok, batch, cacheDoc, cfgCache, done, tokCap, route, users, authUsers, page, wsVars>>

\* line 676: the delete of the cache document is applied
CacheDeleteOK ==
  /\ calls[HostCall].pc = "ccDel"
  /\ cacheDoc' = NoMem
  /\ calls' = [calls EXCEPT ![HostCall].pc = "done"]
  /\ UNCHANGED <<svcMode, store, now, nextTok, batch, mem, cfgCache, done, tokCap, route, users, authUsers, page, wsVars>>

\* lines 676-678: the delete is rejected; the catch logs the error
CacheDeleteFail ==
  /\ calls[HostCall].pc = "ccDel"
  /\ calls' = [calls EXCEPT ![HostCall].pc = "done", ![HostCall].err = "clearFailed"]
  /\ UNCHANGED <<svcMode, store, now, nextTok, batch, mem, cacheDoc, cfgCache, done, tokCap, route, users, authUsers, page, wsVars>>

\* concurrent calls and one clearCache
NextClear ==
  \/ \E c \in CallIds, op \in {"resolve", "obf"}, p \in Principals,
          m \in MeetingIds \cup {"none"} : StartCall(c, op, p, m)
  \/ \E c \in CallIds : CallStep(c)
  \/ ClearCache
  \/ CacheDeleteOK
  \/ CacheDeleteFail

SpecClear == Init /\ [][NextClear]_vars

\* ------------------------------------------------- the Express request pipeline
\* server.js line 40: String.trim().toLowerCase() of one entry of
\* ZOOM_AUTHORIZED_DOMAINS
TrimLower(d) ==
  CASE d = " Corp.COM " -> "corp.com"
    [] d = "corp.com" -> "corp.com"
    [] d = "evil.com " -> "evil.com"
    [] d = " " -> ""
    [] OTHER -> d

\* server.js line 166: String.toLowerCase() of the domain part of an email
ToLowerCase(d) ==
  CASE d = "CORP.com" -> "corp.com"
    [] d = "Evil.com" -> "evil.com"
    [] OTHER -> d

\* server.js lines 40-43: the entries split at ",", trimmed, lowercased, the
\* empty ones dropped
ParseDomains(raw) == {TrimLower(raw[i]) : i \in DOMAIN raw} \ {""}

\* values of ZOOM_AUTHORIZED_DOMAINS, split at ","
DomainSettings == {<<"">>, <<" Corp.COM ">>, <<"corp.com", " ", "evil.com ">>}

\* email claims of ID tokens; the domain is what follows the "@"
Emails ==
  {NoEmail, [local |-> "a", domain |-> "corp.com"], [local |-> "c", domain |-> "CORP.com"],
   [local |-> "b", domain |-> "Evil.com"], [local |-> "d", domain |-> "other.org"]}

\* Authorization headers: absent, without the Bearer prefix, a Bearer token
\* verifyIdToken rejects, a Bearer token verifyIdToken accepts
Headers == {"none", "malformed", "invalid", "valid"}

\* server.js lines 191-443: the routes registered on apiRouter
ApiRoutes ==
  {"GET /api/auth/zoom/url", "POST /api/auth/zoom/callback", "GET /api/auth/zoom/status",
   "POST /api/auth/zoom/disconnect", "POST /api/meetings/start", "POST /api/meetings/join",
   "POST /api/meetings/batch-join", "POST /api/meetings/setup"}

\* paths under /api that no route matches
UnroutedApiPaths == {"GET /api/unknown"}

\* server.js lines 86-92: GET /api/health answers without any middleware
HealthRequest ==
  /\ route.pc = "idle"
  /\ route' = [route EXCEPT !.pc = "status200", !.path = "GET /api/health",
                            !.handler = "GET /api/health"]
  /\ UNCHANGED <<svcMode, store, now, nextTok, calls, batch, mem, cacheDoc, cfgCache,
                 done, tokCap, users, authUsers, page, wsVars>>

\* server.js lines 108-123: GET /api/auth/zoom/callback, registered on app
\* before the middleware; code and state come from the query string, and
\* exchangeCodeForTokens(code, state) is called for the uid in state
OAuthCallbackRequest(c, hdr, error, code, state) ==
  /\ route.pc = "idle"
  /\ LET r == [route EXCEPT !.path = "GET /api/auth/zoom/callback", !.hdr = hdr]
     IN IF error
          THEN /\ route' = [r EXCEPT !.pc = "redirectDenied"]
               /\ UNCHANGED <<svcMode, store, now, nextTok, calls, batch, mem, cacheDoc,
                              cfgCache, done, tokCap, users, authUsers, page, wsVars>>
          ELSE IF code = "" \/ state = ""
            THEN /\ route' = [r EXCEPT !.pc = "status400"]
                 /\ UNCHANGED <<svcMode, store, now, nextTok, calls, batch, mem, cacheDoc,
                                cfgCache, done, tokCap, users, authUsers, page, wsVars>>
            ELSE /\ BeginExchange(c, state)
                 /\ route' = [r EXCEPT !.pc = "exchange",
                                       !.handler = "GET /api/auth/zoom/callback"]

\* server.js lines 124-145: exchangeCodeForTokens returned or rejected; the
\* browser is redirected to the deep link with success true or false
OAuthCallbackRespond ==
  /\ route.pc = "exchange"
  /\ \E c \in CallIds :
       /\ calls[c].op = "exchange" /\ Terminal(c)
       /\ route' = [route EXCEPT !.pc = IF calls[c].pc = "done" THEN "redirectSuccess"
                                                               ELSE "redirectFailed"]
  /\ UNCHANGED <<svcMode, store, now, nextTok, calls, batch, mem, cacheDoc, cfgCache,
                 done, tokCap, users, authUsers, page, wsVars>>

\* server.js lines 152-164, 184, 445: a request under /api that no earlier
\* route took enters authenticate; without a Bearer token it is answered 401,
\* otherwise verifyIdToken is awaited
ApiRequest(path, hdr, uid, email) ==
  /\ route.pc = "idle"
  /\ route' = [route EXCEPT !.path = path, !.hdr = hdr, !.tokUid = uid, !.email = email,
                            !.pc = IF hdr \in {"none", "malformed"} THEN "status401"
                                                                   ELSE "verify"]
  /\ UNCHANGED <<svcMode, store, now, nextTok, calls, batch, mem, cacheDoc, cfgCache,
                 done, tokCap, users, authUsers, page, wsVars>>

\* server.js lines 164-174, 482: verifyIdToken resolved with the decoded
\* claims; the domain check answers 403 or sets req.user and calls next(), and
\* the route's handler runs (the 404 handler when no route matches)
VerifyIdTokenOK ==
  /\ route.pc = "verify" /\ route.hdr = "valid"
  /\ IF /\ route.allowed # {}
        /\ route.email # NoEmail
        /\ ToLowerCase(route.email.domain) \notin route.allowed
       THEN route' = [route EXCEPT !.pc = "status403"]
       ELSE route' = [route EXCEPT !.user = route.tokUid,
                        !.pc = IF route.path \in ApiRoutes THEN "handler" ELSE "status404",
                        !.handler = IF route.path \in ApiRoutes THEN route.path
                                                                ELSE "notFound"]
  /\ UNCHANGED <<svcMode, store, now, nextTok, calls, batch, mem, cacheDoc, cfgCache,
                 done, tokCap, users, authUsers, page, wsVars>>

\* server.js lines 175-180: verifyIdToken rejected; 401
VerifyIdTokenFail ==
  /\ route.pc = "verify" /\ route.hdr = "invalid"
  /\ route' = [route EXCEPT !.pc = "status401"]
  /\ UNCHANGED <<svcMode, store, now, nextTok, calls, batch, mem, cacheDoc, cfgCache,
                 done, tokCap, users, authUsers, page, wsVars>>

\* server.js lines 451-476: GET / answers the endpoint list without middleware
InfoRequest ==
  /\ route.pc = "idle"
  /\ route' = [route EXCEPT !.pc = "status200", !.path = "GET /", !.handler = "GET /"]
  /\ UNCHANGED <<svcMode, store, now, nextTok, calls, batch, mem, cacheDoc, cfgCache,
                 done, tokCap, users, authUsers, page, wsVars>>

\* server.js lines 482-484: a path outside /api that no route matches
NotFoundRequest ==
  /\ route.pc = "idle"
  /\ route' = [route EXCEPT !.pc = "status404", !.path = "GET /other",
                            !.handler = "notFound"]
  /\ UNCHANGED <<svcMode, store, now, nextTok, calls, batch, mem, cacheDoc, cfgCache,
                 done, tokCap, users, authUsers, page, wsVars>>

\* server.js lines 23-43: the server starts with the OAuth service and the
\* parsed ZOOM_AUTHORIZED_DOMAINS
InitApi ==
  /\ InitCore(MaxTok)
  /\ svcMode = "oauth"
  /\ \E raw \in DomainSettings : route = [IdleRoute EXCEPT !.allowed = ParseDomains(raw)]
  /\ InitAdminPage

\* one HTTP request served by server.js
NextApi ==
  \/ HealthRequest
  \/ \E c \in CallIds, hdr \in Headers, error \in BOOLEAN, code \in {"", "code"},
          state \in Principals \cup {""} : OAuthCallbackRequest(c, hdr, error, code, state)
  \/ OAuthCallbackRespond
  \/ \E path \in ApiRoutes \cup UnroutedApiPaths, hdr \in Headers, uid \in Principals,
          email \in Emails : ApiRequest(path, hdr, uid, email)
  \/ VerifyIdTokenOK
  \/ VerifyIdTokenFail
  \/ InfoRequest
  \/ NotFoundRequest
  \/ \E c \in CallIds, e \in ExpiresInValues : ExchangeCodeOK(c, e)
  \/ \E c \in CallIds : ExchangeProfileOK(c)
  \/ \E c \in CallIds : ExchangeWriteOK(c)
  \/ \E c \in CallIds : ExchangeFail(c)

SpecApi == InitApi /\ [][NextApi]_vars

\* ----------------------------------------------------- AdminPage.handleSubmit
\* handleSubmit is not running in the session (the pc then names how the last
\* run ended)
PageIdle(s) ==
  page[s].pc \in {"idle", "validation", "wait", "taken", "checkError", "authError",
                  "writeFailed", "success"}

\* checkDisplayNameUnique's query: some document has the trimmed display name
NameTaken(n) == \E i \in DOMAIN users : users[i].displayName = Trim(n)

\* handleChange and the debounce effect: a field is typed; a new display
\* name is unchecked and (re)arms the 500 ms timer unless it is blank; a
\* query already in flight goes on
HandleChange(s, name, value) ==
  /\ PageIdle(s)
  /\ IF name = "displayName"
       THEN /\ value \in DisplayNames /\ value # page[s].displayName
            /\ page' = [page EXCEPT ![s].displayName = value, ![s].pc = "idle",
                          ![s].displayNameValid = "null",
                          ![s].debounce = IF Trim(value) = "" THEN "none" ELSE "armed"]
       ELSE /\ value \in FormEmails /\ value # page[s].email
            /\ page' = [page EXCEPT ![s].email = value, ![s].pc = "idle"]
  /\ UNCHANGED <<svcMode, store, now, nextTok, calls, batch, mem, cacheDoc, cfgCache,
                 done, tokCap, route, users, authUsers, wsVars>>

\* the debounce timer fires: checkDisplayNameUnique sends its query for the
\* display name the timer was armed with
DebounceFire(s) ==
  /\ page[s].debounce = "armed"
  /\ page' = [page EXCEPT ![s].debounce = "none", ![s].displayNameChecking = TRUE,
                          ![s].queries = @ \cup {page[s].displayName}]
  /\ UNCHANGED <<svcMode, store, now, nextTok, calls, batch, mem, cacheDoc, cfgCache,
                 done, tokCap, route, users, authUsers, wsVars>>

\* checkDisplayNameUnique: the timer's query for n is answered
DebounceQueryDone(s, n) ==
  /\ n \in page[s].queries
  /\ page' = [page EXCEPT ![s].queries = @ \ {n}, ![s].displayNameChecking = FALSE,
                ![s].displayNameValid = IF NameTaken(n) THEN "false" ELSE "true"]
  /\ UNCHANGED <<svcMode, store, now, nextTok, calls, batch, mem, cacheDoc, cfgCache,
                 done, tokCap, route, users, authUsers, wsVars>>

\* checkDisplayNameUnique: the timer's query for n is rejected; the name
\* counts as unchecked
DebounceQueryFail(s, n) ==
  /\ n \in page[s].queries
  /\ page' = [page EXCEPT ![s].queries = @ \ {n}, ![s].displayNameChecking = FALSE,
                          ![s].displayNameValid = "null"]
  /\ UNCHANGED <<svcMode, store, now, nextTok, calls, batch, mem, cacheDoc, cfgCache,
                 done, tokCap, route, users, authUsers, wsVars>>

\* handleSubmit up to its first await: client validation, the three
\* display-name guards, then either its own uniqueness query or
\* createUserWithEmailAndPassword on the page's auth instance
HandleSubmit(s) ==
  /\ PageIdle(s)
  /\ LET p == page[s]
     IN page' = [page EXCEPT ![s] =
          IF Trim(p.displayName) = "" \/ ~ValidateEmail(p.email)
            THEN [p EXCEPT !.pc = "validation"]
          ELSE IF p.displayNameChecking
            THEN [p EXCEPT !.pc = "wait"]
          ELSE IF p.displayNameValid = "false"
            THEN [p EXCEPT !.pc = "taken"]
          ELSE IF p.displayNameValid = "null"
            THEN [p EXCEPT !.pc = "check", !.displayNameChecking = TRUE]
          ELSE [p EXCEPT !.pc = "create", !.isSubmitting = TRUE]]
  /\ UNCHANGED <<svcMode, store, now, nextTok, calls, batch, mem, cacheDoc, cfgCache,
                 done, tokCap, route, users, authUsers, wsVars>>

\* handleSubmit's own checkDisplayNameUnique is answered: a taken name ends
\* the submit, a free one goes on to createUserWithEmailAndPassword
SubmitCheckDone(s) ==
  /\ page[s].pc = "check"
  /\ page' = [page EXCEPT ![s].displayNameChecking = FALSE,
                ![s].displayNameValid =
                   IF NameTaken(page[s].displayName) THEN "false" ELSE "true",
                ![s].isSubmitting = ~NameTaken(page[s].displayName),
                ![s].pc = IF NameTaken(page[s].displayName) THEN "taken" ELSE "create"]
  /\ UNCHANGED <<svcMode, store, now, nextTok, calls, batch, mem, cacheDoc, cfgCache,
                 done, tokCap, route, users, authUsers, wsVars>>

\* the uniqueness query is rejected: the submit ends with an error
SubmitCheckFail(s) ==
  /\ page[s].pc = "check"
  /\ page' = [page EXCEPT ![s].displayNameChecking = FALSE,
                          ![s].displayNameValid = "null", ![s].pc = "checkError"]
  /\ UNCHANGED <<svcMode, store, now, nextTok, calls, batch, mem, cacheDoc, cfgCache,
                 done, tokCap, route, users, authUsers, wsVars>>

\* createUserWithEmailAndPassword(auth, email, password) succeeds: the account
\* exists and auth.currentUser is the new user; addDoc is sent
CreateUserOK(s) ==
  /\ page[s].pc = "create"
  /\ page[s].email \notin authUsers
  /\ authUsers' = authUsers \cup {page[s].email}
  /\ page' = [page EXCEPT ![s].currentUser = page[s].email, ![s].pc = "addDoc"]
  /\ UNCHANGED <<svcMode, store, now, nextTok, calls, batch, mem, cacheDoc, cfgCache,
                 done, tokCap, route, users, wsVars>>

\* createUserWithEmailAndPassword is rejected (email-already-in-use, network):
\* the catch shows the error and the finally block resets isSubmitting
CreateUserFail(s) ==
  /\ page[s].pc = "create"
  /\ page' = [page EXCEPT ![s].pc = "authError", ![s].isSubmitting = FALSE]
  /\ UNCHANGED <<svcMode, store, now, nextTok, calls, batch, mem, cacheDoc, cfgCache,
                 done, tokCap, route, users, authUsers, wsVars>>

\* addDoc succeeds: the users collection has the new document; signOut(auth)
\* is sent
AddDocOK(s) ==
  /\ page[s].pc = "addDoc"
  /\ users' = Append(users, [displayName |-> Trim(page[s].displayName),
                             email |-> page[s].email, uid |-> page[s].currentUser])
  /\ page' = [page EXCEPT ![s].pc = "signOut"]
  /\ UNCHANGED <<svcMode, store, now, nextTok, calls, batch, mem, cacheDoc, cfgCache,
                 done, tokCap, route, authUsers, wsVars>>

\* addDoc is rejected: firestore/write-failed is thrown past signOut to the
\* catch
AddDocFail(s) ==
  /\ page[s].pc = "addDoc"
  /\ page' = [page EXCEPT ![s].pc = "writeFailed", ![s].isSubmitting = FALSE]
  /\ UNCHANGED <<svcMode, store, now, nextTok, calls, batch, mem, cacheDoc, cfgCache,
                 done, tokCap, route, users, authUsers, wsVars>>

\* the form as reset after a successful creation; the effect clears the timer
ResetForm(p) ==
  [p EXCEPT !.pc = "success", !.displayName = "", !.email = "",
            !.displayNameValid = "null", !.debounce = "none", !.isSubmitting = FALSE]

\* signOut(auth) succeeds: nobody is signed in; the form is reset and the
\* success message shown
SignOutOK(s) ==
  /\ page[s].pc = "signOut"
  /\ page' = [page EXCEPT ![s] = [ResetForm(page[s]) EXCEPT !.currentUser = "none"]]
  /\ UNCHANGED <<svcMode, store, now, nextTok, calls, batch, mem, cacheDoc, cfgCache,
                 done, tokCap, route, users, authUsers, wsVars>>

\* signOut(auth) is rejected: the error is only logged; the form is reset and
\* the success message shown
SignOutFail(s) ==
  /\ page[s].pc = "signOut"
  /\ page' = [page EXCEPT ![s] = ResetForm(page[s])]
  /\ UNCHANGED <<svcMode, store, now, nextTok, calls, batch, mem, cacheDoc, cfgCache,
                 done, tokCap, route, users, authUsers, wsVars>>

\* the admin page is mounted in every session; the Zoom service is unused
InitAdmin ==
  /\ InitCore(MaxTok)
  /\ svcMode = "oauth"
  /\ \A p \in Principals : ~store[p].exists
  /\ route = IdleRoute
  /\ InitAdminPage

\* handleChange while no query of the session is in flight
TypeWhenSettled(s, name, value) ==
  /\ page[s].queries = {}
  /\ HandleChange(s, name, value)

\* the display names typed where two sessions run together
SharedNames == {"", "bob "}

\* administrators type, the timers fire and forms are submitted; in these
\* runs of two sessions a field is typed only while no query of the session
\* is in flight
NextAdmin ==
  \/ \E s \in Sessions, value \in SharedNames : TypeWhenSettled(s, "displayName", value)
  \/ \E s \in Sessions, value \in FormEmails : TypeWhenSettled(s, "email", value)
  \/ \E s \in Sessions : DebounceFire(s)
  \/ \E s \in Sessions, n \in DisplayNames : DebounceQueryDone(s, n)
  \/ \E s \in Sessions, n \in DisplayNames : DebounceQueryFail(s, n)
  \/ \E s \in Sessions : HandleSubmit(s)
  \/ \E s \in Sessions : SubmitCheckDone(s)
  \/ \E s \in Sessions : SubmitCheckFail(s)
  \/ \E s \in Sessions : CreateUserOK(s)
  \/ \E s \in Sessions : CreateUserFail(s)
  \/ \E s \in Sessions : AddDocOK(s)
  \/ \E s \in Sessions : AddDocFail(s)
  \/ \E s \in Sessions : SignOutOK(s)
  \/ \E s \in Sessions : SignOutFail(s)

SpecAdmin == InitAdmin /\ [][NextAdmin]_vars

\* one administrator types, also while queries are in flight, and submits
NextForm ==
  \E s \in {"s1"} :
    \/ \E value \in DisplayNames : HandleChange(s, "displayName", value)
    \/ \E value \in FormEmails : HandleChange(s, "email", value)
    \/ DebounceFire(s)
    \/ \E n \in DisplayNames : DebounceQueryDone(s, n)
    \/ \E n \in DisplayNames : DebounceQueryFail(s, n)
    \/ HandleSubmit(s)
    \/ SubmitCheckDone(s)
    \/ SubmitCheckFail(s)
    \/ CreateUserOK(s)
    \/ CreateUserFail(s)
    \/ AddDocOK(s)
    \/ AddDocFail(s)
    \/ SignOutOK(s)
    \/ SignOutFail(s)

SpecForm == InitAdmin /\ [][NextForm]_vars

\* ------------------------------------------------ WebSocketHandler events
\* line 24: a client connects
Connection(k) ==
  /\ sockets[k].state = "new"
  /\ sockets' = [sockets EXCEPT ![k].state = "connected"]
  /\ UNCHANGED <<svcMode, store, now, nextTok, calls, batch, mem, cacheDoc, cfgCache,
                 done, tokCap, route, users, authUsers, page, connectedUsers, emitted>>

\* lines 28-44: authenticate {userId}: the socket joins user:<userId> and
\* becomes the user's entry of connectedUsers; without a userId an error is
\* emitted
Authenticate(k, userId) ==
  /\ sockets[k].state = "connected"
  /\ IF userId # ""
       THEN /\ sockets' = [sockets EXCEPT ![k].rooms = @ \cup {userId}]
            /\ connectedUsers' = MapSet(connectedUsers, userId, k)
       ELSE UNCHANGED <<sockets, connectedUsers>>
  /\ UNCHANGED <<svcMode, store, now, nextTok, calls, batch, mem, cacheDoc, cfgCache,
                 done, tokCap, route, users, authUsers, page, emitted>>

\* lines 170-182: the socket disconnects and leaves its rooms; one entry of
\* connectedUsers with its id is deleted
Disconnect(k) ==
  /\ sockets[k].state = "connected"
  /\ sockets' = [sockets EXCEPT ![k] = [state |-> "disconnected", rooms |-> {}]]
  /\ connectedUsers' = DeleteFirstOf(connectedUsers, k)
  /\ UNCHANGED <<svcMode, store, now, nextTok, calls, batch, mem, cacheDoc, cfgCache,
                 done, tokCap, route, users, authUsers, page, emitted>>

\* lines 47-58: meeting:start {meetingId, hostUserId}: the fields are checked
\* and getZAKToken(hostUserId) is called
MeetingStart(k, m, hostUserId) ==
  /\ route.pc = "idle" /\ sockets[k].state = "connected"
  /\ batch.pc = "idle" /\ \A c \in Slots : calls[c].pc = "idle"
  /\ LET r == [route EXCEPT !.path = "meeting:start", !.socket = k, !.mid = m]
     IN IF m = "" \/ hostUserId = ""
          THEN /\ route' = [r EXCEPT !.pc = "wsError"]
               /\ UNCHANGED calls
          ELSE /\ route' = [r EXCEPT !.pc = "wsToken"]
               /\ calls' = [calls EXCEPT ![1] = BeginCall("zak", hostUserId, "none", 0)]
  /\ UNCHANGED <<svcMode, store, now, nextTok, batch, mem, cacheDoc, cfgCache,
                 done, tokCap, users, authUsers, page, wsVars>>

\* lines 80-91: meeting:join {meetingId, participantUserId}: the fields are
\* checked and getOBFToken(participantUserId, meetingId) is called
MeetingJoin(k, m, participantUserId) ==
  /\ route.pc = "idle" /\ sockets[k].state = "connected"
  /\ batch.pc = "idle" /\ \A c \in Slots : calls[c].pc = "idle"
  /\ LET r == [route EXCEPT !.path = "meeting:join", !.socket = k, !.mid = m]
     IN IF m = "" \/ participantUserId = ""
          THEN /\ route' = [r EXCEPT !.pc = "wsError"]
               /\ UNCHANGED calls
          ELSE /\ route' = [r EXCEPT !.pc = "wsToken"]
               /\ calls' = [calls EXCEPT ![1] = BeginCall("obf", participantUserId, m, 0)]
  /\ UNCHANGED <<svcMode, store, now, nextTok, batch, mem, cacheDoc, cfgCache,
                 done, tokCap, users, authUsers, page, wsVars>>

\* lines 60-68 and 93-101: the token call returned; the token is emitted to
\* the requesting socket as meeting:started or meeting:credentials
MeetingTokenEmit ==
  /\ route.pc = "wsToken" /\ calls[1].pc = "done"
  /\ emitted' = emitted \cup
       {ToSocket(route.socket,
                 IF route.path = "meeting:start" THEN "meeting:started"
                                                 ELSE "meeting:credentials",
                 calls[1].token)}
  /\ route' = [route EXCEPT !.pc = "wsDone"]
  /\ UNCHANGED <<svcMode, store, now, nextTok, calls, batch, mem, cacheDoc, cfgCache,
                 done, tokCap, users, authUsers, page, sockets, connectedUsers>>

\* lines 69-75 and 102-108: the token call was rejected; an error is emitted
MeetingTokenFail ==
  /\ route.pc = "wsToken" /\ calls[1].pc = "failed"
  /\ route' = [route EXCEPT !.pc = "wsError"]
  /\ UNCHANGED <<svcMode, store, now, nextTok, calls, batch, mem, cacheDoc, cfgCache,
                 done, tokCap, users, authUsers, page, wsVars>>

\* lines 112-127: meeting:distribute {meetingId, hostUserId,
\* participantUserIds}: the fields are checked and getMeetingTokens is called
MeetingDistribute(k, m, hostUserId, parts) ==
  /\ route.pc = "idle" /\ sockets[k].state = "connected"
  /\ LET r == [route EXCEPT !.path = "meeting:distribute", !.socket = k, !.mid = m]
     IN IF m = "" \/ hostUserId = ""
          THEN /\ route' = [r EXCEPT !.pc = "wsError"]
               /\ UNCHANGED <<svcMode, store, now, nextTok, calls, batch, mem, cacheDoc,
                              cfgCache, done, tokCap, users, authUsers, page, wsVars>>
          ELSE /\ route' = [r EXCEPT !.pc = "wsTokens"]
               /\ BeginBatch(hostUserId, m, parts)

\* lines 129-156: getMeetingTokens returned; the ZAK goes to the requesting
\* socket, each participant's token to the room user:<participant.userId>
DistributeEmit ==
  /\ route.pc = "wsTokens" /\ batch.pc = "returned"
  /\ emitted' = emitted \cup {ToSocket(route.socket, "meeting:started", batch.zak)}
                        \cup CredentialsToRooms
  /\ route' = [route EXCEPT !.pc = "wsDone"]
  /\ UNCHANGED <<svcMode, store, now, nextTok, calls, batch, mem, cacheDoc, cfgCache,
                 done, tokCap, users, authUsers, page, sockets, connectedUsers>>

\* lines 157-163: getMeetingTokens was rejected; an error is emitted
DistributeFail ==
  /\ route.pc = "wsTokens" /\ batch.pc = "failed"
  /\ route' = [route EXCEPT !.pc = "wsError"]
  /\ UNCHANGED <<svcMode, store, now, nextTok, calls, batch, mem, cacheDoc, cfgCache,
                 done, tokCap, users, authUsers, page, wsVars>>

\* one step of a token call of the per-user OAuth service
OAuthStep(c) ==
  \/ DocGet(c)
  \/ Decide(c)
  \/ \E e \in ExpiresInValues, r \in BOOLEAN : RefreshOK(c, e, r)
  \/ RefreshFail(c)
  \/ WriteOK(c)
  \/ WriteFail(c)
  \/ TokenOK(c)
  \/ TokenFail(c)

\* participantUserIds / participantFirebaseUids of one request
WsPartLists == {<<>>} \cup {<<p>> : p \in Principals}

\* server.js lines 57, 79-80: the server runs the per-user OAuth service and
\* the WebSocket handler
InitWs ==
  /\ InitWith(MaxTok)
  /\ svcMode = "oauth"

\* clients connect, authenticate and disconnect while one meeting event or
\* one POST /api/meetings/setup is served
NextWs ==
  \/ \E k \in SocketIds : Connection(k)
  \/ \E k \in SocketIds, userId \in EventUserIds : Authenticate(k, userId)
  \/ \E k \in SocketIds : Disconnect(k)
  \/ \E k \in SocketIds, m \in MeetingIds, h \in EventUserIds : MeetingStart(k, m, h)
  \/ \E k \in SocketIds, m \in MeetingIds, p \in EventUserIds : MeetingJoin(k, m, p)
  \/ MeetingTokenEmit
  \/ MeetingTokenFail
  \/ \E k \in SocketIds, m \in MeetingIds, h \in EventUserIds, parts \in WsPartLists :
       MeetingDistribute(k, m, h, parts)
  \/ DistributeEmit
  \/ DistributeFail
  \/ \E h \in Principals, m \in MeetingIds, parts \in WsPartLists : SetupRequest(h, m, parts)
  \/ SetupTokensFailed
  \/ SetupStoreMetadata
  \/ SetupMetadataOK
  \/ SetupMetadataFail
  \/ BatchFanOut
  \/ BatchHostFail
  \/ BatchCollect
  \/ \E c \in Slots : OAuthStep(c)

SpecWs == InitWs /\ [][NextWs]_vars

\* ------------------------------------------------------------------ claims
Calling(c) == calls[c].pc # "idle"
\* the call has not yet decided between its cache and the authority
Undecided(c) == calls[c].pc \in {"idle", "get", "got", "ccRead", "ccGot"}
\* a token grant of the call was answered successfully
Granted(c) == calls[c].pend.accessToken # Undef

\* C1: for one principal at most one refresh_token grant is in flight, so that
\* N concurrent getAccessTokenForUser calls on an expired record send one request.
C1_SingleRefreshInFlight ==
  svcMode = "oauth" =>
    \A p \in Principals :
      Cardinality({c \in Slots : calls[c].uid = p /\ calls[c].pc = "refresh"}) <= 1

\* C2: the stored records change only in the step that applies the write of a
\* call whose refresh grant succeeded, and only for that call's principal;
\* a call whose refresh fails changes nothing and ends with the refresh error.
C2_FailedRefreshKeepsRecord ==
  [][/\ \A c \in Slots :
          (calls[c].pc \in {"refresh", "write"} /\ calls'[c].pc = "failed")
            => (store' = store /\ calls'[c].err = "refreshFailed")
     /\ store' # store =>
          \E c \in Slots :
            /\ calls[c].pc = "write" /\ calls'[c].pc \in {"done", "token"}
            /\ \A p \in Principals \ {calls[c].uid} : store'[p] = store[p]]_vars

C2_Witness ==
  \E c \in Slots :
    /\ calls[c].pc = "failed" /\ calls[c].err = "refreshFailed"
    /\ calls[c].pend = NoDoc
    /\ store[calls[c].uid] = calls[c].snap
    /\ calls[c].snap.exists

\* the number of entries of seq equal to e
Occ(seq, e) == Cardinality({i \in DOMAIN seq : seq[i] = e})
NParts == Len(batch.parts)

\* C3: a returned getMeetingTokens result has as many entries in participants
\* and failed together as there were input participants, and the entry made
\* for each input participant names that participant and lies in exactly one
\* of the two lists, as often as it was made.
C3_EveryRecipientOnce ==
  batch.pc = "returned" =>
    /\ Len(batch.participants) + Len(batch.failed) = NParts
    /\ Len(batch.results) = NParts
    /\ \A i \in 1..NParts :
         LET r == batch.results[i]
         IN /\ r.userId = (IF calls[i].pc = "done" THEN calls[i].zid ELSE batch.parts[i])
            /\ Occ(batch.participants, r) + Occ(batch.failed, r) = Occ(batch.results, r)
            /\ Occ(batch.participants, r) = 0 \/ Occ(batch.failed, r) = 0

C3_Witness ==
  /\ batch.pc = "returned" /\ NParts = 2
  /\ Len(batch.participants) = 1 /\ Len(batch.failed) = 1
  /\ batch.failed[1].error = "notConnected"

\* C4: a participant whose token request failed does not make getMeetingTokens
\* fail and does not keep any other participant's request from being started
\* and finished: the call returns, and every participant whose request
\* succeeded has its token in participants.
C4_ParticipantFailureIsolated ==
  (\E j \in 1..NParts : calls[j].parent = j /\ calls[j].pc = "failed") =>
    /\ batch.pc \in {"fanout", "returned"}
    /\ \A i \in 1..NParts : Calling(i)
    /\ batch.pc = "returned" =>
         \A i \in 1..NParts :
           /\ Terminal(i)
           /\ calls[i].pc = "done" =>
                \E k \in DOMAIN batch.participants :
                  batch.participants[k] = [userId |-> calls[i].zid, obfToken |-> calls[i].token]

C4_Witness ==
  /\ batch.pc = "returned"
  /\ \E i, j \in 1..NParts :
       /\ calls[j].pc = "failed" /\ calls[j].err \in {"refreshFailed", "tokenFailed"}
       /\ calls[i].pc = "done" /\ calls[i].nStore >= calls[j].nStore

\* C5: when the host's getZAKToken fails, getMeetingTokens fails as a whole:
\* it never returns a result and starts no participant request.
C5_HostFailureIsFatal ==
  (batch.pc # "idle" /\ calls[HostCall].pc = "failed") =>
    /\ batch.pc \in {"host", "failed"}
    /\ batch.participants = <<>> /\ batch.failed = <<>> /\ batch.results = <<>>
    /\ \A i \in CallIds : ~Calling(i)

C5_Witness ==
  /\ batch.pc = "failed" /\ NParts = 2
  /\ calls[HostCall].err \in {"refreshFailed", "tokenFailed"}

\* C6: a resolution that finds its cached record valid (a bearer secret is
\* present and now < expiry - 5 min when it decides) sends no request to the
\* authority and returns the cached secret.
C6_ValidCacheNoRequest ==
  \A c \in Slots :
    (/\ ~Undecided(c)
     /\ calls[c].snap.exists
     /\ calls[c].snap.accessToken # Undef
     /\ calls[c].tDecide < calls[c].snap.expiry - CACHE_BUFFER_MS)
    => /\ calls[c].nAuth = 0
       /\ calls[c].pend = NoDoc
       /\ calls[c].bearer = calls[c].snap.accessToken

C6_Witness ==
  \E c \in Slots :
    /\ svcMode = "oauth" /\ calls[c].pc = "done" /\ calls[c].op = "resolve"
    /\ calls[c].snap.exists
    /\ calls[c].tDecide < calls[c].snap.expiry - CACHE_BUFFER_MS
    /\ calls[c].bearer = calls[c].snap.accessToken /\ calls[c].nAuth = 0

\* C7: getOBFToken with an empty meeting id fails with the meeting-id-required
\* error without touching the store, the authority or the resource API, and
\* no on-behalf token exists without a meeting id.
C7_EmptyMeetingIdRejected ==
  \A c \in Slots :
    /\ (Calling(c) /\ calls[c].op = "obf" /\ calls[c].mid = "") =>
         /\ calls[c].pc = "failed" /\ calls[c].err = "midRequired"
         /\ calls[c].nStore = 0 /\ calls[c].nAuth = 0 /\ calls[c].nRes = 0
    /\ calls[c].token.kind = "onbehalf" => calls[c].token.mid # ""

C7_Witness ==
  \E c \in Slots :
    /\ calls[c].op = "obf" /\ calls[c].mid = ""
    /\ calls[c].pc = "failed" /\ calls[c].err = "midRequired"

\* C8: getZAKToken, and getOBFToken with a meeting id, for a principal without
\* a stored record fail with the not-connected error, send nothing to the
\* authority or the resource API, and write no record.
C8_NoRecordNotConnected ==
  svcMode = "oauth" =>
    \A c \in Slots :
      (/\ calls[c].op \in {"zak", "obf"}
       /\ calls[c].pc \notin {"idle", "get"}
       /\ ~(calls[c].op = "obf" /\ calls[c].mid = "")
       /\ ~calls[c].snap.exists)
      => /\ calls[c].pc \in {"got", "failed"}
         /\ calls[c].pc = "failed" => calls[c].err = "notConnected"
         /\ calls[c].nAuth = 0 /\ calls[c].nRes = 0
         /\ calls[c].nStore = 1 /\ calls[c].pend = NoDoc
         /\ ~store[calls[c].uid].exists

C8_Witness ==
  /\ svcMode = "oauth"
  /\ calls[HostCall].op = "zak" /\ calls[HostCall].pc = "failed"
  /\ calls[HostCall].err = "notConnected" /\ ~calls[HostCall].snap.exists
  /\ ~store[calls[HostCall].uid].exists

\* c2 is a resolution that follows the successful grant of c1 at once: it
\* finds the secret c1 obtained, at the time c1 received it
ResolvedRightAfter(c1, c2) ==
  /\ c1 # c2
  /\ Granted(c1)
  /\ ~Undecided(c2)
  /\ svcMode = "oauth" => calls[c2].uid = calls[c1].uid
  /\ calls[c2].snap.accessToken = calls[c1].pend.accessToken
  /\ calls[c2].tDecide = calls[c1].tResp

\* C9 as stated: whatever expires_in the authority returned, a resolution that
\* follows a successful refresh at once returns the refreshed secret and
\* sends no request to the authority.
C9_RereadAfterRefreshAnyExpiresIn ==
  \A c1, c2 \in Slots :
    ResolvedRightAfter(c1, c2) =>
      /\ calls[c2].nAuth = 0
      /\ calls[c2].bearer = calls[c1].pend.accessToken

\* C9 amended: the same, for a grant whose expires_in is longer than the
\* 5-minute buffer.
C9_RereadAfterRefresh ==
  \A c1, c2 \in Slots :
    (ResolvedRightAfter(c1, c2) /\ calls[c1].expIn * 1000 > CACHE_BUFFER_MS) =>
      /\ calls[c2].nAuth = 0
      /\ calls[c2].bearer = calls[c1].pend.accessToken

C9_Witness ==
  \E c1, c2 \in Slots :
    /\ svcMode = "oauth"
    /\ ResolvedRightAfter(c1, c2) /\ calls[c1].expIn * 1000 > CACHE_BUFFER_MS
    /\ calls[c1].pc = "done" /\ calls[c2].pc = "done"
    /\ calls[c2].bearer = calls[c1].bearer /\ calls[c2].nAuth = 0

\* the record the call read was inside the buffer but not expired when the
\* call decided
InBuffer(c) ==
  /\ svcMode = "oauth"
  /\ ~Undecided(c)
  /\ calls[c].snap.exists /\ calls[c].snap.accessToken # Undef
  /\ calls[c].snap.expiry - CACHE_BUFFER_MS <= calls[c].tDecide
  /\ calls[c].tDecide < calls[c].snap.expiry

\* the call's refresh succeeded and its secret was returned
Refreshed(c) == Granted(c) /\ calls[c].bearer = calls[c].pend.accessToken

\* C10 as stated: a resolution of a record inside the buffer sends exactly one
\* refresh request and, once it succeeded, the expiry it recorded is later
\* than the expiry it found.
C10_BufferRefreshExtendsExpiryAlways ==
  \A c \in Slots :
    InBuffer(c) =>
      /\ calls[c].nAuth = 1
      /\ Refreshed(c) => calls[c].pend.expiry > calls[c].snap.expiry

\* C10 amended: the same, for a refresh response whose expires_in is longer
\* than the 5-minute buffer.
C10_BufferRefreshExtendsExpiry ==
  \A c \in Slots :
    InBuffer(c) =>
      /\ calls[c].nAuth = 1
      /\ (Refreshed(c) /\ calls[c].expIn * 1000 > CACHE_BUFFER_MS)
           => calls[c].pend.expiry > calls[c].snap.expiry

C10_Witness ==
  \E c \in Slots :
    /\ InBuffer(c) /\ Refreshed(c) /\ calls[c].pc = "done"
    /\ calls[c].expIn * 1000 > CACHE_BUFFER_MS
    /\ calls[c].pend.expiry > calls[c].snap.expiry
    /\ store[calls[c].uid].expiry = calls[c].pend.expiry

\* C11: the account id in the URL of every host-token and on-behalf-token
\* request is the zoomUserId of the stored record the call read for its
\* principal, not the identifier the caller passed in.
C11_AccountIdFromRecord ==
  \A c \in Slots :
    calls[c].nRes > 0 =>
      /\ calls[c].snap.exists
      /\ calls[c].snap.zoomUserId # "undefined"
      /\ calls[c].zid = calls[c].snap.zoomUserId

\* C12: a resolution sends at most one token request to the authority, and a
\* resolution whose request or write failed has ended with the failure
\* after that one request, with no secret returned and nothing requested
\* from the resource API.
C12_NoRetry ==
  \A c \in Slots :
    /\ calls[c].nAuth <= 1
    /\ calls[c].err \in {"refreshFailed", "oauthFailed"} =>
         /\ calls[c].pc = "failed"
         /\ calls[c].nAuth = 1
         /\ calls[c].bearer = Undef /\ calls[c].nRes = 0

C12_Witness ==
  \E c, d \in Slots :
    /\ calls[c].pc = "failed" /\ calls[c].err = "refreshFailed"
    /\ calls[c].nAuth = 1 /\ calls[c].pend = NoDoc
    /\ calls[d].pc = "failed" /\ calls[d].err = "refreshFailed"
    /\ calls[d].nAuth = 1 /\ calls[d].pend # NoDoc

\* the participant slots in input order, and those of them that succeeded / failed
InputOrder == [i \in 1..NParts |-> i]
Succeeded(i) == calls[i].pc = "done"
Failed(i) == calls[i].pc = "failed"
SucceededEntry(i) == [userId |-> calls[i].zid, obfToken |-> calls[i].token]
FailedEntry(i) == [userId |-> calls[i].uid, error |-> calls[i].err]
\* the two result lists when the entries of the slots come in the given order
ListsFollow(order) ==
  /\ batch.participants =
       [k \in 1..Len(SelectSeq(order, Succeeded)) |->
          SucceededEntry(SelectSeq(order, Succeeded)[k])]
  /\ batch.failed =
       [k \in 1..Len(SelectSeq(order, Failed)) |->
          FailedEntry(SelectSeq(order, Failed)[k])]

\* C13 as stated: in a returned result the entries of participants and of
\* failed come in the order in which the participants' requests completed.
C13_CompletionOrder ==
  batch.pc = "returned" => ListsFollow(done)

\* C13 amended: in a returned result the entries of participants and of failed
\* come in the order of the participants' positions in the input, whatever
\* the order in which their requests completed.
C13_InputOrder ==
  batch.pc = "returned" => (Len(done) = NParts /\ ListsFollow(InputOrder))

C13_Witness ==
  /\ batch.pc = "returned" /\ NParts = 2
  /\ done = <<2, 1>>
  /\ Succeeded(1) /\ Succeeded(2)
  /\ batch.parts[1] # batch.parts[2]
  /\ batch.participants[1].userId = calls[1].zid
  /\ batch.participants[2].userId = calls[2].zid

\* the in-memory cache holds no secret that is valid beyond the buffer
MemoryMiss ==
  mem.accessToken = Undef \/ ~(now < mem.expiry - CACHE_BUFFER_MS)
\* the cache document holds a secret that is valid beyond the buffer
DurableValid ==
  cacheDoc.accessToken # Undef /\ now < cacheDoc.expiry - CACHE_BUFFER_MS

\* C14: with the durable cache enabled, a getAccessToken call that starts on
\* a memory miss while the cache document is valid sends no request to the
\* authority, and a call that read a valid cache document returns its secret,
\* puts it into memory and sends no request.
C14_DurableHitOnMemoryMiss ==
  [][\A c \in Slots :
       /\ (/\ svcMode = "cc" /\ cfgCache
           /\ calls[c].pc = "idle" /\ calls'[c].pc \notin {"idle", "failed"}
           /\ MemoryMiss /\ DurableValid)
          => calls'[c].nAuth = 0
       /\ (/\ calls[c].pc = "ccGot" /\ calls'[c].pc # "ccGot"
           /\ calls[c].snap.exists
           /\ now < calls[c].snap.expiry - CACHE_BUFFER_MS)
          => /\ calls'[c].nAuth = 0
             /\ calls'[c].bearer = calls[c].snap.accessToken
             /\ mem'.accessToken = calls[c].snap.accessToken]_vars

\* C15: with the durable cache enabled, the in-memory cache never holds the
\* secret of a grant whose write to the cache document is still pending or
\* was rejected.
C15_DurableBeforeMemory ==
  \A c \in Slots :
    (/\ svcMode = "cc" /\ cfgCache
     /\ Granted(c)
     /\ mem.accessToken = calls[c].pend.accessToken)
    => /\ calls[c].pc # "ccWrite"
       /\ calls[c].pc # "failed"

\* C16: the step that applies the write of a successful refresh leaves in the
\* principal's record the bearer secret of the response, the expiry of the
\* response, the refresh secret of the response if it carried one and else
\* the refresh secret the call had read, and the zoomUserId as it was.
C16_RefreshUpdatesRecord ==
  [][\A c \in Slots :
       (calls[c].pc = "write" /\ calls'[c].pc \in {"done", "token"}) =>
         LET r == store'[calls[c].uid]
         IN /\ r.exists
            /\ r.accessToken = calls[c].pend.accessToken
            /\ r.accessToken \notin {Undef, calls[c].snap.accessToken}
            /\ r.expiry = calls[c].tResp + calls[c].expIn * 1000
            /\ r.refreshToken = (IF calls[c].respRt # Undef
                                   THEN calls[c].respRt
                                   ELSE calls[c].snap.refreshToken)
            /\ r.refreshToken # Undef
            /\ r.zoomUserId = store[calls[c].uid].zoomUserId]_vars

C16_Witness ==
  \E c \in Slots :
    /\ calls[c].pc = "done" /\ Granted(c) /\ calls[c].respRt = Undef
    /\ store[calls[c].uid].accessToken = calls[c].pend.accessToken
    /\ store[calls[c].uid].refreshToken = calls[c].snap.refreshToken
    /\ store[calls[c].uid].zoomUserId = calls[c].snap.zoomUserId

\* the upstream expiry of the grant the call received
UpstreamExpiry(call) == call.tResp + call.expIn * 1000

\* C17: every expiry a step writes to a stored record, to the cache document
\* or to memory is the time of a grant response plus its expires_in seconds
\* (or, for memory, the expiry read from the cache document): the 5-minute
\* buffer is never taken off a stored value.
C17_RawExpiryStored ==
  [][/\ \A c \in Slots :
          calls'[c].pend.expiry # calls[c].pend.expiry =>
            (calls'[c].tResp = now /\ calls'[c].pend.expiry = now + calls'[c].expIn * 1000)
     /\ \A p \in Principals :
          store'[p].expiry # store[p].expiry =>
            \/ store'[p] = NoDoc
            \/ \E c \in Slots :
                 /\ calls[c].pc \in {"write", "xWrite"} /\ calls[c].uid = p
                 /\ store'[p].expiry = UpstreamExpiry(calls[c])
     /\ cacheDoc'.expiry # cacheDoc.expiry =>
          \E c \in Slots :
            calls[c].pc = "ccWrite" /\ cacheDoc'.expiry = UpstreamExpiry(calls[c])
     /\ mem'.expiry # mem.expiry =>
          \E c \in Slots :
            \/ calls[c].pc = "ccGrant" /\ mem'.expiry = UpstreamExpiry(calls'[c])
            \/ calls[c].pc = "ccGot" /\ mem'.expiry = calls[c].snap.expiry]_vars

C17_Witness ==
  \E c \in Slots :
    /\ calls[c].op = "exchange" /\ calls[c].pc = "done"
    /\ calls[c].expIn * 1000 < CACHE_BUFFER_MS
    /\ store[calls[c].uid].expiry = UpstreamExpiry(calls[c])
    /\ store[calls[c].uid].expiry > calls[c].tResp

\* C18: a step of an operation on principal P changes no record but P's,
\* reads no record but P's, and changes nothing of any other operation in
\* progress.
C18_OnlyOwnRecord ==
  [][\A c \in Slots :
       calls'[c] # calls[c] =>
         /\ \A q \in Principals \ {calls'[c].uid} : store'[q] = store[q]
         /\ \A d \in Slots \ {c} : calls'[d] = calls[d]
         /\ (svcMode = "oauth" /\ calls'[c].snap # calls[c].snap)
              => calls'[c].snap = store[calls'[c].uid]]_vars

C18_Witness ==
  \E c, d \in Slots :
    /\ calls[c].op = "exchange" /\ calls[c].pc = "done"
    /\ store[calls[c].uid].accessToken = calls[c].pend.accessToken
    /\ calls[d].op = "resolve" /\ calls[d].pc = "done"
    /\ calls[d].uid # calls[c].uid
    /\ calls[d].nAuth = 0
    /\ store[calls[d].uid] = calls[d].snap

Triple(r) == <<r.accessToken, r.refreshToken, r.expiry>>
\* the write of the call's refresh has been applied
WriteApplied(c) ==
  /\ calls[c].op \in {"resolve", "zak", "obf"}
  /\ Granted(c) /\ calls[c].pc # "write" /\ calls[c].err # "refreshFailed"

\* C19: the step that applies the write of a refresh leaves exactly that
\* write's (accessToken, refreshToken, expiry) in the record, and at any time
\* the triple of a record is the one it started with or the one written by a
\* single refresh of that principal, never fields of two responses.
C19_LastWriteWins ==
  [][/\ \A c \in Slots :
          (calls[c].pc = "write" /\ calls'[c].pc \in {"done", "token"})
            => Triple(store'[calls[c].uid]) = Triple(calls[c].pend)
     /\ \A p \in Principals :
          store[p].exists =>
            \/ \E e \in InitExpiries : Triple(store[p]) = Triple(InitRecord(p, e))
            \/ \E c \in Slots :
                 /\ calls[c].uid = p /\ WriteApplied(c)
                 /\ Triple(store[p]) = Triple(calls[c].pend)]_vars

C19_Witness ==
  \E c, d \in Slots :
    /\ c # d /\ calls[c].uid = calls[d].uid
    /\ WriteApplied(c) /\ WriteApplied(d)
    /\ calls[c].snap = calls[d].snap
    /\ calls[c].respRt # Undef /\ calls[d].respRt # Undef
    /\ calls[c].pend.expiry # calls[d].pend.expiry
    /\ calls[c].pend.accessToken < calls[d].pend.accessToken
    /\ Triple(store[calls[c].uid]) = Triple(calls[c].pend)

\* C20: a batch call ends in a top-level error only when the host's token
\* could not be issued or the request was malformed: getMeetingTokens fails
\* only with its host call, the setup handler answers 400 only to a request
\* without a meeting id and 500 only when the host call failed, and a request
\* whose host call succeeded is answered with the result, the failures of
\* its participants being entries of failed.
C20_TopLevelErrorOnlyHostOrMalformed ==
  /\ batch.pc = "failed" => calls[HostCall].pc = "failed"
  /\ route.pc = "status400" => route.mid = ""
  /\ route.pc = "status500" => calls[HostCall].pc = "failed"
  /\ (route.pc \in {"status200", "status500"} /\ calls[HostCall].pc = "done") =>
       /\ route.pc = "status200" /\ batch.pc = "returned"
       /\ \A i \in 1..NParts :
            calls[i].pc = "failed" =>
              \E k \in DOMAIN batch.failed :
                batch.failed[k] = [userId |-> calls[i].uid, error |-> calls[i].err]

C26_SingleGrantInFlight ==
  svcMode = "cc" =>
    Cardinality({c \in Slots : calls[c].pc = "ccGrant"}) <= 1

\* a disconnectZoom call for p has completed
Disconnected(p) ==
  \E c \in Slots : calls[c].op = "disconnect" /\ calls[c].uid = p /\ calls[c].pc = "done"

\* C27: once disconnectZoom(P) has completed and P has no record, a record
\* for P comes into existence only by the write of an exchangeCodeForTokens
\* call for P; until then isZoomConnected reports not connected and a
\* resolution that read no record fails as not connected.
C27_DisconnectedStaysDisconnected ==
  [][\A p \in Principals :
       /\ (Disconnected(p) /\ ~store[p].exists /\ store'[p].exists) =>
            \E c \in Slots :
              /\ calls[c].op = "exchange" /\ calls[c].uid = p
              /\ calls[c].pc = "xWrite" /\ calls'[c].pc = "done"
       /\ \A c \in Slots :
            (calls[c].uid = p /\ ~store[p].exists) =>
              /\ (calls[c].pc = "statGet" /\ calls'[c].pc = "done")
                   => (~calls'[c].snap.exists /\ calls'[c].zid = "none")
              /\ (calls[c].pc = "got" /\ ~calls[c].snap.exists /\ calls'[c].pc # "got")
                   => (calls'[c].pc = "failed" /\ calls'[c].err = "notConnected")]_vars

\* C29: every record that exists carries accessToken, refreshToken, expiry
\* and zoomUserId; isZoomConnected never reports connected with an undefined
\* zoomUserId and no token request carries an undefined account id.
C29_RecordsAreComplete ==
  svcMode = "oauth" =>
    /\ \A p \in Principals :
         store[p].exists =>
           /\ store[p].accessToken # Undef /\ store[p].refreshToken # Undef
           /\ store[p].expiry # Undef /\ store[p].zoomUserId # "undefined"
    /\ \A c \in Slots :
         /\ (calls[c].op = "status" /\ calls[c].pc = "done" /\ calls[c].snap.exists)
              => calls[c].zid # "undefined"
         /\ (calls[c].op \in {"zak", "obf"} /\ calls[c].nRes > 0)
              => calls[c].zid # "undefined"

\* C28: no refresh request is sent carrying a refresh secret that a completed
\* refresh of the same principal has superseded: the refresh secret a call
\* sends is the one the principal's record holds when the request is sent.
C28_NoSupersededRefreshSecret ==
  [][\A c \in Slots :
       (calls[c].pc = "got" /\ calls'[c].pc = "refresh") =>
         ~\E d \in Slots \ {c} :
            /\ calls[d].uid = calls[c].uid /\ calls[d].pc = "done"
            /\ calls[d].respRt # Undef
            /\ store[calls[c].uid].refreshToken = calls[d].respRt
            /\ calls[c].snap.refreshToken # calls[d].respRt]_vars

\* C30: the first getAccessToken call started after clearCache has returned
\* does not return a secret that was cached, in memory or in the cache
\* document, before the clear.
C30_ClearedSecretNotReturned ==
  \A d \in CallIds :
    LET k == calls[HostCall]
    IN (/\ svcMode = "cc" /\ k.op = "clear"
        /\ d = k.parent + 1
        /\ calls[d].bearer # Undef)
       => /\ calls[d].bearer # k.snap.accessToken
          /\ calls[d].bearer # k.pend.accessToken

\* the request passed authenticate: req.user is set and next() was called
PassedAuthenticate == route.user # "none"

\* C22: when ZOOM_AUTHORIZED_DOMAINS is a non-empty list, a request passes the
\* authenticate middleware only if its verified ID token carries an email
\* whose domain is in the list.
C22_OnlyListedDomainsPass ==
  (route.allowed # {} /\ PassedAuthenticate)
    => /\ route.email # NoEmail
       /\ ToLowerCase(route.email.domain) \in route.allowed

\* the handlers that read, create, overwrite or delete a credential record or
\* issue a token
CredentialHandlers ==
  {"GET /api/auth/zoom/callback", "POST /api/auth/zoom/callback",
   "GET /api/auth/zoom/status", "POST /api/auth/zoom/disconnect",
   "POST /api/meetings/start", "POST /api/meetings/join",
   "POST /api/meetings/batch-join", "POST /api/meetings/setup"}

\* C23: no handler that reads, creates, overwrites or deletes a principal's
\* credential record, or issues a token, runs for a request that has not
\* passed the authenticate middleware.
C23_CredentialHandlersBehindAuthenticate ==
  route.handler \in CredentialHandlers => PassedAuthenticate

\* C24: creating a user never changes the admin's authentication session:
\* whenever handleSubmit is not running in a session, the signed-in user of
\* the auth instance that holds the admin's session is still the admin.
C24_AdminStaysSignedIn ==
  \A s \in Sessions : PageIdle(s) => page[s].currentUser = "admin"

\* C25: display names are globally unique: no two documents in the users
\* collection have the same displayName, whatever the interleaving of the
\* sessions' submits.
C25_DisplayNamesUnique ==
  \A i, j \in DOMAIN users : i # j => users[i].displayName # users[j].displayName

\* the call got its bearer secret from a cache: it has one and asked the
\* authority for nothing
FromCache(c) == calls[c].bearer # Undef /\ calls[c].nAuth = 0

\* C31: a bearer secret taken from a cache (memory or the durable store) is
\* returned only if now < expiry - 5 min held for that cached entry when the
\* call decided; the memory entry is checked against its expiry on every
\* resolution, never returned because it is present.
C31_CachedSecretOnlyIfValid ==
  \A c \in Slots :
    FromCache(c)
      => /\ calls[c].snap.exists
         /\ calls[c].bearer = calls[c].snap.accessToken
         /\ calls[c].snap.expiry # Undef
         /\ calls[c].tDecide < calls[c].snap.expiry - CACHE_BUFFER_MS

\* a client-credentials call served from memory after the clock has advanced
C31_Witness ==
  \E c \in Slots :
    /\ svcMode = "cc" /\ calls[c].pc = "done" /\ FromCache(c)
    /\ calls[c].nStore = 0
    /\ calls[c].tDecide > StartMs
    /\ calls[c].tDecide < calls[c].snap.expiry - CACHE_BUFFER_MS

\* the participant calls of the getMeetingTokens call that returned a token
IssuedParts == {i \in 1..Len(batch.parts) : calls[i].pc = "done"}

\* meeting:distribute or POST /api/meetings/setup has emitted its tokens
Distributed ==
  \/ route.path = "meeting:distribute" /\ route.pc = "wsDone"
  \/ route.path = "none" /\ route.pc = "status200"

\* C32: in meeting:distribute and POST /api/meetings/setup every issued
\* participant token is emitted to the room user:<uid> of the participant it
\* was issued for (the room that participant's sockets joined), and no
\* participant token is emitted to a room named by another identifier.
C32_TokensToParticipantRooms ==
  /\ \A e \in emitted :
       (e.kind = "room" /\ e.event = "meeting:credentials")
         => \E i \in IssuedParts : calls[i].token = e.token /\ e.target = calls[i].uid
  /\ Distributed =>
       \A i \in IssuedParts :
         \E e \in emitted : /\ e.kind = "room" /\ e.event = "meeting:credentials"
                            /\ e.token = calls[i].token /\ e.target = calls[i].uid

\* C33: over WebSocket a ZAK or OBF token bound to principal U's Zoom account
\* is delivered only to sockets that have authenticated as U: every step that
\* emits a token delivers it only to sockets that are in room user:U for the
\* principal U whose Zoom account the token is bound to.
C33_TokenOnlyToOwnSockets ==
  [][\A e \in emitted' \ emitted : \A k \in e.to :
       \E u \in sockets[k].rooms : e.token.user = ZoomIdOf(u)]_vars

\* C34: after any sequence of connection, authenticate and disconnect events
\* isUserConnected(u) is true exactly when some connected socket has
\* authenticated as u, and connectedUsers maps no user to the id of a socket
\* that has disconnected.
C34_ConnectedUsersMatchSockets ==
  /\ \A u \in Principals : isUserConnected(u) <=> RoomMembers(u) # {}
  /\ \A i \in DOMAIN connectedUsers :
       sockets[connectedUsers[i].socketId].state # "disconnected"

\* C35: the availability state always refers to the display name in the
\* form: the answer to a uniqueness query is applied only if the query was
\* sent for the display name the form holds when the answer arrives.
C35_CheckResultForCurrentName ==
  [][\A s \in Sessions, n \in DisplayNames :
       DebounceQueryDone(s, n) => n = page[s].displayName]_vars

\* handleSubmit has ended after createUserWithEmailAndPassword succeeded
EndedAfterCreate(s) == page[s].pc \in {"writeFailed", "success"}

\* C36: on every path of handleSubmit on which createUserWithEmailAndPassword
\* succeeded, the one where the Firestore write fails included, the new user
\* has been signed out and isSubmitting is false when handleSubmit ends.
C36_NewUserSignedOut ==
  \A s \in Sessions :
    EndedAfterCreate(s) => /\ page[s].currentUser \notin authUsers
                           /\ ~page[s].isSubmitting


\* C37: exchangeCodeForTokens writes the principal's record only after the
\* grant and the profile request have both been answered, in one write that
\* carries accessToken, refreshToken, expiry and zoomUserId; a step of the
\* call that is not that write, and in particular its failure at the grant,
\* the profile request or the write, leaves every record as it was and the
\* failed call returns no account id.
C37_ExchangeWritesOnceAtEnd ==
  [][\A c \in Slots :
       (calls'[c] # calls[c] /\ calls'[c].op = "exchange") =>
         /\ store' # store =>
              /\ calls[c].pc = "xWrite" /\ calls'[c].pc = "done"
              /\ calls[c].nRes = 1 /\ calls[c].nStore = 1
              /\ calls[c].pend.zoomUserId = ZoomIdOf(calls[c].uid)
              /\ store'[calls[c].uid].exists
              /\ store'[calls[c].uid].accessToken = calls[c].pend.accessToken
              /\ store'[calls[c].uid].refreshToken = calls[c].pend.refreshToken
              /\ store'[calls[c].uid].expiry = calls[c].pend.expiry
              /\ store'[calls[c].uid].zoomUserId = calls[c].pend.zoomUserId
         /\ calls'[c].pc = "done" => store'[calls[c].uid].accessToken = calls[c].pend.accessToken
         /\ calls'[c].pc = "failed" => store' = store /\ calls'[c].zid = "none"]_vars

\* one exchange of a principal has written the record, another exchange of
\* the same principal has failed, and the record carries the four fields of
\* the exchange that was written
C37_Witness ==
  \E c, d \in Slots :
    /\ calls[c].op = "exchange" /\ calls[c].pc = "done"
    /\ calls[d].op = "exchange" /\ calls[d].pc = "failed"
    /\ calls[d].uid = calls[c].uid
    /\ store[calls[c].uid].accessToken = calls[c].pend.accessToken
    /\ store[calls[c].uid].zoomUserId = calls[c].zid
====
